---- MODULE Spec2Model ----
(***************************************************************************)
(* A model of the AgentFlow CRM solver (backend/app/agentflow_solver.py):  *)
(* the Planner -> Executor -> Verifier -> Memory loop of                   *)
(* AgentFlowCRMSolver.solve, the parsing helpers it relies on, and the     *)
(* Memory object that one solver instance keeps across solve calls.        *)
(***************************************************************************)
EXTENDS Integers, Sequences, FiniteSets, TLC

VARIABLES
    pc,                  \* position inside solve: "idle" before a call, "done"/"raised" after it
    max_steps,           \* self.max_steps of the solver instance
    call_budget,         \* how many solve calls the caller makes on this instance
    calls,               \* solve calls started so far
    query,               \* the query of the current call
    heap,                \* list objects: heap[id] is the content of the Python list with that id
    actions,             \* self.memory.actions: the id of the list it refers to
    mem_query,           \* self.memory._query
    step_count,
    final_result,
    last_command,
    consecutive_no_tool,
    has_fetched_data,
    has_done_reasoning,
    last_tools,
    tool_name,
    command,
    result,
    stop_verification,   \* the Verifier's raw answer of the current step (or LLMRaise)
    conclusion,
    reasoning_steps,     \* the trace: a sequence of [step, type]
    ret,                 \* what the current call returned (NoReturn until it does)
    returned,            \* per finished call: what it returned and the memory content at that time
    selections,          \* history: the tool_name of every iteration of the current call
    stop_reason,         \* history: why the main loop of the current call ended
    op,                  \* a component operation called on its own: its name and arguments
    op_pc,               \* "call" before the operation runs, "returned" or "raised" after it
    op_ret,              \* what the operation returned
    invoked,             \* the collaborator calls the operation made, in order
    threads,             \* per thread running solve on one shared instance: its locals
    clock,               \* a solve call with its clock: position, elapsed time, budget
    flow                 \* the AgentFlowSolver of agentflow_crm.py and its solve call

solve_vars == <<pc, max_steps, call_budget, calls, query, step_count, final_result,
                last_command, consecutive_no_tool, has_fetched_data, has_done_reasoning,
                last_tools, tool_name, command, result, stop_verification, conclusion,
                reasoning_steps, ret, returned, selections, stop_reason>>

memory_vars == <<heap, actions, mem_query>>

op_vars == <<op, op_pc, op_ret, invoked>>

vars == <<solve_vars, memory_vars, op_vars, threads, clock, flow>>

(***************************************************************************)
(* Bounds of the model.                                                    *)
(***************************************************************************)
\* most rows the record store returns to one query
MaxRows == 2
\* longest duration of one collaborator call, in clock ticks
MaxDuration == 2
\* largest time budget max_time, in clock ticks
MaxTime == 3
\* largest max_steps of a solver whose solve is run against the clock
MaxTimedSteps == 2
\* max_steps of a solver whose solve is entered by two callers at once
MaxThreadSteps == 2
\* largest max_steps of an AgentFlowSolver (agentflow_crm)
MaxFlowSteps == 3
\* solve calls made on one AgentFlowSolver
MaxFlowCalls == 2
\* largest max_steps of a solver that serves a single solve call
MaxSteps == 4
\* largest max_steps of a solver that serves several solve calls
MaxSeqSteps == 1
\* largest number of solve calls made one after another on one instance
MaxCalls == 2

(***************************************************************************)
(* Python values.                                                          *)
(***************************************************************************)
\* Python's None where a string is expected; str(None) is "None"
None == "None"
\* the dict is absent (final_result = None, nothing returned yet)
NoResult == [success |-> FALSE, error |-> "<no result>", result_count |-> 0, results |-> 0, absent |-> TRUE]
NoReturn == [kind |-> "none"]
\* no component operation is under way
NoOp == [name |-> "none"]
\* a text-generation call that raises instead of returning text
LLMRaise == "<raise>"

(***************************************************************************)
(* Python string operations, on TLA+ strings.                              *)
(***************************************************************************)
UpperAlphabet == "ABCDEFGHIJKLMNOPQRSTUVWXYZ"
LowerAlphabet == "abcdefghijklmnopqrstuvwxyz"

CharAt(s, i) == SubSeq(s, i, i)

IndexIn(c, alpha) ==
    IF \E i \in 1..Len(alpha) : CharAt(alpha, i) = c
    THEN CHOOSE i \in 1..Len(alpha) : CharAt(alpha, i) = c
    ELSE 0

UpperChar(c) ==
    IF IndexIn(c, LowerAlphabet) > 0 THEN CharAt(UpperAlphabet, IndexIn(c, LowerAlphabet)) ELSE c

LowerChar(c) ==
    IF IndexIn(c, UpperAlphabet) > 0 THEN CharAt(LowerAlphabet, IndexIn(c, UpperAlphabet)) ELSE c

RECURSIVE upper(_)
upper(s) == IF s = "" THEN "" ELSE UpperChar(CharAt(s, 1)) \o upper(SubSeq(s, 2, Len(s)))

RECURSIVE lower(_)
lower(s) == IF s = "" THEN "" ELSE LowerChar(CharAt(s, 1)) \o lower(SubSeq(s, 2, Len(s)))

\* Python: sub in s
Contains(s, sub) == \E i \in 0..(Len(s) - Len(sub)) : SubSeq(s, i + 1, i + Len(sub)) = sub

startswith(s, p) == Len(s) >= Len(p) /\ SubSeq(s, 1, Len(p)) = p

\* Python: s[n:]
From(s, n) == SubSeq(s, n + 1, Len(s))

IsSpace(c) == c \in {" ", "\t", "\n", "\r"}

RECURSIVE lstrip(_)
lstrip(s) == IF s # "" /\ IsSpace(CharAt(s, 1)) THEN lstrip(SubSeq(s, 2, Len(s))) ELSE s

RECURSIVE rstrip(_)
rstrip(s) == IF s # "" /\ IsSpace(CharAt(s, Len(s))) THEN rstrip(SubSeq(s, 1, Len(s) - 1)) ELSE s

strip(s) == rstrip(lstrip(s))

\* Python: s.split(sep) for a one-character separator
RECURSIVE split(_, _)
split(s, sep) ==
    IF ~Contains(s, sep) THEN <<s>>
    ELSE LET i == CHOOSE k \in 1..Len(s) :
                      CharAt(s, k) = sep /\ \A j \in 1..(k - 1) : CharAt(s, j) # sep
         IN  <<SubSeq(s, 1, i - 1)>> \o split(SubSeq(s, i + 1, Len(s)), sep)

\* Python: len(s.split()), the number of whitespace-separated words
RECURSIVE WordCount(_)
WordCount(s) ==
    LET t == lstrip(s) IN
    IF t = "" THEN 0
    ELSE LET n == CHOOSE k \in 1..Len(t) :
                      /\ \A j \in 1..k : ~IsSpace(CharAt(t, j))
                      /\ (k = Len(t) \/ IsSpace(CharAt(t, k + 1)))
         IN  1 + WordCount(SubSeq(t, n + 1, Len(t)))

(***************************************************************************)
(* The tool registry of AgentFlowCRMSolver.__init__.                       *)
(***************************************************************************)
available_tools == <<"CRM_Database_Query", "CRM_Analytics", "CRM_Reasoning">>

tools == {available_tools[i] : i \in 1..Len(available_tools)}

max_no_tool_attempts == 2

(***************************************************************************)
(* Planner.is_query_ambiguous: the verdict, without the clarifying text.   *)
(***************************************************************************)
vague_patterns ==
    {"what does this mean", "what is this", "explain this", "help me understand",
     "i don't get it", "what happened", "huh", "???"}

crm_keywords ==
    {"lead", "contact", "account", "opportunity", "deal", "pipeline", "revenue", "sales",
     "activity", "campaign", "top", "show", "list", "find", "get", "what", "how many",
     "total", "count", "amount"}

\* a detector that would not look for the domain keywords
is_vague_keywords_ignored(q) ==
    /\ WordCount(q) < 5
    /\ \E pattern \in vague_patterns : Contains(strip(lower(q)), pattern)

is_vague(q) ==
    LET query_lower     == strip(lower(q))
        has_crm_keyword == \E kw \in crm_keywords : Contains(query_lower, kw)
        is_short        == WordCount(q) < 5
        matches_vague   == \E pattern \in vague_patterns : Contains(query_lower, pattern)
    IN  matches_vague /\ is_short /\ ~has_crm_keyword

(***************************************************************************)
(* Planner.extract_context_subgoal_and_tool: the tool of a planner answer. *)
(***************************************************************************)
RECURSIVE LastToolField(_, _)
LastToolField(lines, acc) ==
    IF lines = <<>> THEN acc
    ELSE LET line == strip(Head(lines)) IN
         IF startswith(line, "CONTEXT:") THEN LastToolField(Tail(lines), acc)
         ELSE IF startswith(line, "SUB_GOAL:") THEN LastToolField(Tail(lines), acc)
         ELSE IF startswith(line, "TOOL:") THEN LastToolField(Tail(lines), strip(From(line, 5)))
         ELSE LastToolField(Tail(lines), acc)

\* a matcher that would treat blanks and underscores alike
RECURSIVE Unseparated(_)
Unseparated(s) ==
    IF s = "" THEN ""
    ELSE IF CharAt(s, 1) \in {" ", "_"} THEN Unseparated(SubSeq(s, 2, Len(s)))
    ELSE CharAt(s, 1) \o Unseparated(SubSeq(s, 2, Len(s)))

FuzzyMatchesIn_SeparatorsIgnored(name, avail) ==
    {i \in 1..Len(avail) :
        \/ Contains(Unseparated(lower(name)), Unseparated(lower(avail[i])))
        \/ Contains(Unseparated(lower(avail[i])), Unseparated(lower(name)))}

\* the positions of the registered names that contain name or are contained in it
FuzzyMatchesIn(name, avail) ==
    {i \in 1..Len(avail) :
        \/ Contains(lower(name), lower(avail[i]))
        \/ Contains(lower(avail[i]), lower(name))}

FuzzyMatches(name) == FuzzyMatchesIn(name, available_tools)

\* the parse with self.available_tools = avail
Planner_extract_tool(next_step, avail) ==
    LET raw  == LastToolField(split(next_step, "\n"), None)
        \* "if tool_name and ...": None and the empty string are both falsy
        t1   == IF raw # None /\ raw # ""
                   /\ lower(raw) \in {"none", "n/a", "no tool", "no_tool", ""}
                THEN None ELSE raw
        registered == {avail[i] : i \in 1..Len(avail)}
    IN  IF t1 # None /\ t1 # "" /\ t1 \notin registered
        THEN IF FuzzyMatchesIn(t1, avail) # {}
             THEN avail[CHOOSE i \in FuzzyMatchesIn(t1, avail) :
                                      \A j \in FuzzyMatchesIn(t1, avail) : i <= j]
             ELSE None
        ELSE t1

extract_context_subgoal_and_tool(next_step) == Planner_extract_tool(next_step, available_tools)

(***************************************************************************)
(* Verifier.extract_conclusion: the verdict of a verifier answer.          *)
(***************************************************************************)
ConclusionOfLine_AnyStop(line, acc) ==
    IF Contains(upper(line), "STOP") THEN "STOP" ELSE acc

ConclusionOfLine(line, acc) ==
    IF startswith(line, "ANALYSIS:") THEN acc
    ELSE IF startswith(line, "CONCLUSION:")
         THEN IF Contains(upper(strip(From(line, 11))), "STOP") THEN "STOP" ELSE "CONTINUE"
         ELSE acc

RECURSIVE ConclusionOfLines(_, _)
ConclusionOfLines(lines, acc) ==
    IF lines = <<>> THEN acc
    ELSE ConclusionOfLines(Tail(lines), ConclusionOfLine(strip(Head(lines)), acc))

extract_conclusion(verification) ==
    ConclusionOfLines(split(verification, "\n"), "CONTINUE")

(***************************************************************************)
(* What the collaborators may answer.                                      *)
(***************************************************************************)
Queries == {"huh", "show me top 10 opportunities by amount"}

\* answers of the text-generation capability to Planner.generate_next_step
PlannerTexts ==
    {"CONTEXT: none yet\nSUB_GOAL: fetch\nTOOL: CRM_Database_Query",
     "CONTEXT: none yet\nSUB_GOAL: metric\nTOOL: CRM_Analytics",
     "CONTEXT: data\nSUB_GOAL: explain\nTOOL: CRM_Reasoning",
     "CONTEXT: unclear\nSUB_GOAL: nothing\nTOOL: None"}

\* answers of the text-generation capability to Verifier.verificate_context
VerifierTexts ==
    {"ANALYSIS: enough\nCONCLUSION: STOP",
     "ANALYSIS: enough\nCONCLUSION: we can stop here",
     "ANALYSIS: more\nCONCLUSION: CONTINUE",
     "We should STOP now",
     "[LLM Unavailable - Error: timeout]"}

\* the command Executor.extract_explanation_and_command yields from a generated answer
GeneratedCommands == {"SELECT COUNT(*) FROM leads"}

FallbackCommand == "SELECT COUNT(*) FROM leads"

ToolOf == [t \in PlannerTexts |-> extract_context_subgoal_and_tool(t)]

VerdictOf == [t \in VerifierTexts |-> extract_conclusion(t)]

\* the verdict of is_query_ambiguous on each query, worked out once
AmbiguousOf == [q \in Queries |-> is_vague(q)]

(***************************************************************************)
(* ToolResult dictionaries.                                                *)
(***************************************************************************)
\* result_count and results are what .get("result_count", 0) and len(.get("results", [])) give
Success(n, rows) ==
    [success |-> TRUE, error |-> "", result_count |-> n, results |-> rows, absent |-> FALSE]

Failure(e) ==
    [success |-> FALSE, error |-> e, result_count |-> 0, results |-> 0, absent |-> FALSE]

\* Executor.execute_tool: the results the tool and the record store can produce
execute_tool(name, cmd) ==
    IF name \notin tools THEN {Failure("Unknown tool: " \o name)}
    ELSE IF name = "CRM_Database_Query"
         THEN {Success(1, 1), Failure("Invalid SQL (must start with SELECT): " \o cmd)}
    ELSE IF name = "CRM_Analytics"
         THEN {Success(0, 0), Failure("Unknown metric: " \o cmd)}
    ELSE {Success(1, 0), Failure("Both task and context are required")}

(***************************************************************************)
(* The regular expressions of Executor.execute_tool, on TLA+ strings.      *)
(* Positions are 1-based; a run is the longest stretch from a position.    *)
(***************************************************************************)
Digits == "0123456789"

\* \w
IsWordChar(c) ==
    IndexIn(c, UpperAlphabet) > 0 \/ IndexIn(c, LowerAlphabet) > 0 \/ IndexIn(c, Digits) > 0 \/ c = "_"

\* \s* from position i: how many characters it takes
WsRun(s, i) ==
    CHOOSE n \in 0..(Len(s) - i + 1) :
        /\ \A k \in 0..(n - 1) : IsSpace(CharAt(s, i + k))
        /\ (i + n > Len(s) \/ ~IsSpace(CharAt(s, i + n)))

\* \w* from position i
WordRun(s, i) ==
    CHOOSE n \in 0..(Len(s) - i + 1) :
        /\ \A k \in 0..(n - 1) : IsWordChar(CharAt(s, i + k))
        /\ (i + n > Len(s) \/ ~IsWordChar(CharAt(s, i + n)))

\* s[i:i+len(lit)] == lit
LitAt(s, i, lit) == i >= 1 /\ i + Len(lit) - 1 <= Len(s) /\ SubSeq(s, i, i + Len(lit) - 1) = lit

\* the same under re.IGNORECASE, for a lower-case lit
LitAtIgnoreCase(s, i, lit) ==
    i >= 1 /\ i + Len(lit) - 1 <= Len(s) /\ lower(SubSeq(s, i, i + Len(lit) - 1)) = lit

\* the backquote character: a TLA+ string cannot hold one, so it is written ~ here
Backquote == "~"

Fence == Backquote \o Backquote \o Backquote

\* re.sub(r'^```\w*\s*', '', s, flags=re.MULTILINE), from position i on
RECURSIVE SubOpeningFence(_, _)
SubOpeningFence(s, i) ==
    IF i > Len(s) THEN ""
    ELSE IF (i = 1 \/ CharAt(s, i - 1) = "\n") /\ LitAt(s, i, Fence)
         THEN LET w == WordRun(s, i + 3) IN SubOpeningFence(s, i + 3 + w + WsRun(s, i + 3 + w))
         ELSE CharAt(s, i) \o SubOpeningFence(s, i + 1)

\* where \s*$ (MULTILINE) ends when it starts at a: the end of the text, or else the last
\* line break of the run; 0 when there is neither
ClosingEnd(s, a) ==
    LET t == WsRun(s, a)
        breaks == {k \in a..(a + t - 1) : CharAt(s, k) = "\n"}
    IN  IF a + t > Len(s) THEN a + t
        ELSE IF breaks # {} THEN CHOOSE k \in breaks : \A j \in breaks : j <= k
        ELSE 0

\* re.sub(r'\s*```\s*$', '', s, flags=re.MULTILINE), from position i on
RECURSIVE SubClosingFence(_, _)
SubClosingFence(s, i) ==
    IF i > Len(s) THEN ""
    ELSE LET f == i + WsRun(s, i) IN
         IF LitAt(s, f, Fence) /\ ClosingEnd(s, f + 3) > 0
         THEN SubClosingFence(s, ClosingEnd(s, f + 3))
         ELSE CharAt(s, i) \o SubClosingFence(s, i + 1)

\* re.sub(r'```\w*\s*', '', s), from position i on
RECURSIVE SubAnyFence(_, _)
SubAnyFence(s, i) ==
    IF i > Len(s) THEN ""
    ELSE IF LitAt(s, i, Fence)
         THEN LET w == WordRun(s, i + 3) IN SubAnyFence(s, i + 3 + w + WsRun(s, i + 3 + w))
         ELSE CharAt(s, i) \o SubAnyFence(s, i + 1)

\* re.sub(r'\s*```', '', s), from position i on
RECURSIVE SubWsFence(_, _)
SubWsFence(s, i) ==
    IF i > Len(s) THEN ""
    ELSE LET f == i + WsRun(s, i) IN
         IF LitAt(s, f, Fence) THEN SubWsFence(s, f + 3)
         ELSE CharAt(s, i) \o SubWsFence(s, i + 1)

\* s.replace(old, new)
RECURSIVE replace(_, _, _)
replace(s, old, new) ==
    IF s = "" THEN ""
    ELSE IF LitAt(s, 1, old) THEN new \o replace(From(s, Len(old)), old, new)
    ELSE CharAt(s, 1) \o replace(From(s, 1), old, new)

NoMatch == [found |-> FALSE, group |-> ""]

Match(g) == [found |-> TRUE, group |-> g]

Quotes == {"'", "\""}

\* key\s*=\s*['"] matched at position p (IGNORECASE): the position after the quote, else 0
KeywordArgOpens(s, key, p) ==
    IF ~LitAtIgnoreCase(s, p, key) THEN 0
    ELSE LET q == p + Len(key) + WsRun(s, p + Len(key)) IN
         IF ~LitAt(s, q, "=") THEN 0
         ELSE LET r == q + 1 + WsRun(s, q + 1) IN
              IF r <= Len(s) /\ CharAt(s, r) \in Quotes THEN r + 1 ELSE 0

\* key\s*=\s*['"](.+?)['"] at p: at least one character, up to the next quote of either kind
LazyArgAt(s, key, p) ==
    LET g == KeywordArgOpens(s, key, p)
        closers == {e \in (g + 1)..Len(s) : CharAt(s, e) \in Quotes}
    IN  IF g = 0 \/ closers = {} THEN NoMatch
        ELSE Match(SubSeq(s, g, (CHOOSE e \in closers : \A x \in closers : e <= x) - 1))

\* key\s*=\s*['"](\w+)['"] at p: a run of word characters closed by a quote
WordArgAt(s, key, p) ==
    LET g == KeywordArgOpens(s, key, p)
        w == IF g = 0 THEN 0 ELSE WordRun(s, g)
    IN  IF g = 0 \/ w = 0 \/ g + w > Len(s) THEN NoMatch
        ELSE IF CharAt(s, g + w) \in Quotes THEN Match(SubSeq(s, g, g + w - 1))
        ELSE NoMatch

\* re.search(r"key\s*=\s*['\"](.+?)['\"](?:\s*\))?", s, re.DOTALL | re.IGNORECASE)
SearchLazyArg(s, key) ==
    LET at == {p \in 1..Len(s) : LazyArgAt(s, key, p).found}
    IN  IF at = {} THEN NoMatch ELSE LazyArgAt(s, key, CHOOSE p \in at : \A x \in at : p <= x)

\* re.search(r"key\s*=\s*['\"](\w+)['\"]", s, re.IGNORECASE)
SearchWordArg(s, key) ==
    LET at == {p \in 1..Len(s) : WordArgAt(s, key, p).found}
    IN  IF at = {} THEN NoMatch ELSE WordArgAt(s, key, CHOOSE p \in at : \A x \in at : p <= x)

\* (SELECT\s+.+?)(?:;|$) at p: SELECT, white space, then as little as reaches ';' or the end
SelectAt(s, p) ==
    IF ~LitAtIgnoreCase(s, p, "select") THEN NoMatch
    ELSE LET w == WsRun(s, p + 6)
             q == p + 6 + w
             \* $ is the end of the text or the place before a final line break
             stops == {e \in (q + 1)..(Len(s) + 1) :
                          \/ e = Len(s) + 1
                          \/ CharAt(s, e) = ";"
                          \/ (e = Len(s) /\ CharAt(s, e) = "\n")}
         IN  IF w = 0 THEN NoMatch
             ELSE IF q <= Len(s)
                  THEN Match(SubSeq(s, p, (CHOOSE e \in stops : \A x \in stops : e <= x) - 1))
             ELSE IF w >= 2 THEN Match(SubSeq(s, p, Len(s)))
             ELSE NoMatch

\* re.search(r'(SELECT\s+.+?)(?:;|$)', s, re.DOTALL | re.IGNORECASE)
SearchSelect(s) ==
    LET at == {p \in 1..Len(s) : SelectAt(s, p).found}
    IN  IF at = {} THEN NoMatch ELSE SelectAt(s, CHOOSE p \in at : \A x \in at : p <= x)

\* s.rstrip(';')
RECURSIVE rstrip_semicolons(_)
rstrip_semicolons(s) ==
    IF s # "" /\ CharAt(s, Len(s)) = ";" THEN rstrip_semicolons(SubSeq(s, 1, Len(s) - 1)) ELSE s

\* s[:n]
Prefix(s, n) == SubSeq(s, 1, IF Len(s) < n THEN Len(s) ELSE n)

(***************************************************************************)
(* The three tools and Executor.execute_tool, command text included.  The  *)
(* record store and the text generation answer as the world decides.       *)
(***************************************************************************)
\* str(e) of the exceptions a collaborator may raise
ExceptionMessages == {"", "connection refused"}

Raises(m) == [kind |-> "raises", message |-> m, n |-> 0]

\* tool.execute runs to its return
Runs == [kind |-> "runs", message |-> "", n |-> 0]

\* execute_query: a list of n rows, or an exception
Rows(n) == [kind |-> "rows", message |-> "", n |-> n]

\* get_llm_response: a text, or an exception
Text(t) == [kind |-> "text", message |-> t, n |-> 0]

\* what the collaborators do during one operation: whether tool.execute runs to its return,
\* what execute_query does, what get_llm_response does
StoreOutcomes == {Rows(n) : n \in 0..MaxRows} \cup {Raises(m) : m \in ExceptionMessages}

LlmOutcomes == {Text("Here is an answer.")} \cup {Raises(m) : m \in ExceptionMessages}

ToolOutcomes == {Runs} \cup {Raises(m) : m \in ExceptionMessages}

Worlds == {[tool |-> t, store |-> s, llm |-> l] :
              t \in ToolOutcomes, s \in StoreOutcomes, l \in LlmOutcomes}

\* a collaborator call: who was called, with what
Call(callee, arg) == [callee |-> callee, arg |-> arg]

\* what an operation did: the dict it returned, the "command" and "query" keys of that dict
\* (None when the key is absent), and the collaborator calls it made; raised is str(e) of
\* the exception that left it, None when it returned
Outcome(res, cmd, qry, calls_made) ==
    [result |-> res, command |-> cmd, query |-> qry, invoked |-> calls_made, raised |-> None]

Raised(m, calls_made) ==
    [result |-> NoResult, command |-> None, query |-> None, invoked |-> calls_made, raised |-> m]

dangerous == <<"INSERT", "UPDATE", "DELETE", "DROP", "ALTER", "CREATE", "TRUNCATE">>

\* "kw in query": the check without the upper-casing of the query
FoundKeywords_CaseSensitive(query_upper, q) ==
    {i \in 1..Len(dangerous) : Contains(q, dangerous[i])}

\* the positions in dangerous of the keywords found: "kw in query_upper"
FoundKeywords(query_upper, q) ==
    {i \in 1..Len(dangerous) : Contains(query_upper, dangerous[i])}

\* CRMQueryTool.execute(query=q), up to the call of execute_query: the error it returns
\* without calling the record store, None when it goes on to call it
CRMQueryTool_rejection(q) ==
    LET query_upper == upper(strip(q))
        found       == FoundKeywords(query_upper, q)
    IN  IF q = None \/ q = "" THEN "No query provided"
        ELSE IF ~startswith(query_upper, "SELECT") THEN "Only SELECT queries allowed"
        ELSE IF found # {}
        THEN "Dangerous keyword '" \o dangerous[CHOOSE i \in found : \A j \in found : i <= j]
                 \o "' not allowed"
        ELSE None

\* CRMQueryTool.execute(query=q): store is what execute_query does when it is called
CRMQueryTool_execute(q, store) ==
    IF CRMQueryTool_rejection(q) # None
    THEN Outcome(Failure(CRMQueryTool_rejection(q)), None, None, <<>>)
    ELSE IF store.kind = "raises"
    THEN Outcome(Failure(store.message), None, q, <<Call("execute_query", q)>>)
    ELSE Outcome(Success(store.n, IF store.n > 100 THEN 100 ELSE store.n), None, q,
                 <<Call("execute_query", q)>>)

pipeline_value_query ==
    "SELECT SUM(amount) as total_value, COUNT(*) as deal_count FROM opportunities WHERE is_closed = false"

lead_conversion_rate_query ==
    "\n                    SELECT \n                        COUNT(*) FILTER (WHERE lead_status = 'converted') as converted,\n                        COUNT(*) as total\n                    FROM leads\n                "

win_rate_query ==
    "\n                    SELECT \n                        COUNT(*) FILTER (WHERE is_won = true) as won,\n                        COUNT(*) FILTER (WHERE is_closed = true) as closed\n                    FROM opportunities\n                "

\* CRMAnalyticsTool.execute(metric=metric): the whole body is inside try/except
CRMAnalyticsTool_execute(metric, store) ==
    LET sql == IF metric = "pipeline_value" THEN pipeline_value_query
               ELSE IF metric = "lead_conversion_rate" THEN lead_conversion_rate_query
               ELSE win_rate_query
    IN  IF metric \notin {"pipeline_value", "lead_conversion_rate", "win_rate"}
        THEN Outcome(Failure("Unknown metric: " \o metric), None, None, <<>>)
        ELSE IF store.kind = "raises"
        THEN Outcome(Failure(store.message), None, None, <<Call("execute_query", sql)>>)
        \* **results[0] of an empty list
        ELSE IF metric # "pipeline_value" /\ store.n = 0
        THEN Outcome(Failure("list index out of range"), None, None,
                     <<Call("execute_query", sql)>>)
        ELSE Outcome(Success(0, 0), None, None, <<Call("execute_query", sql)>>)

\* CRMReasoningTool.execute(task=task, context=context)
CRMReasoningTool_execute(task, context, llm) ==
    IF task = None \/ task = "" \/ context = None \/ context = ""
    THEN Outcome(Failure("Both task and context are required"), None, None, <<>>)
    ELSE IF llm.kind = "raises"
    THEN Outcome(Failure(llm.message), None, None, <<Call("get_llm_response", task)>>)
    ELSE Outcome(Success(1, 0), None, None, <<Call("get_llm_response", task)>>)

\* lines 500-527: the statement drawn from the command (ok), or the text that is rejected
sanitize_sql(cmd) ==
    LET s0 == strip(cmd)
        s1 == SubOpeningFence(s0, 1)
        s2 == SubClosingFence(s1, 1)
        s3 == replace(s2, Fence, "")
        func_match == SearchLazyArg(s3, "query")
        s4 == IF func_match.found THEN func_match.group ELSE s3
        s5 == strip(replace(replace(s4, "\\'", "'"), "\\\"", "\""))
        select_match == SearchSelect(s5)
        s6 == IF ~startswith(upper(s5), "SELECT") /\ select_match.found
              THEN strip(select_match.group) ELSE s5
    IN  IF ~startswith(upper(s6), "SELECT")
        THEN [ok |-> FALSE, sql |-> s6]
        ELSE [ok |-> TRUE, sql |-> strip(rstrip_semicolons(s6))]

\* lines 533-542: the metric drawn from the command
sanitize_metric(cmd) ==
    LET m0 == lower(strip(cmd))
        func_match == SearchWordArg(cmd, "metric")
    IN  IF func_match.found THEN [metric |-> lower(func_match.group)]
        ELSE [metric |-> SubWsFence(SubAnyFence(m0, 1), 1)]

\* lines 549-559: task and context drawn from the command
reasoning_arguments(cmd) ==
    LET task_match    == SearchWordArg(cmd, "task")
        context_match == SearchLazyArg(cmd, "context")
    IN  [task     |-> IF task_match.found THEN task_match.group ELSE "analyze",
         explicit |-> context_match.found,
         context  |-> IF context_match.found THEN context_match.group ELSE strip(cmd)]

\* Executor.__init__ sets self.tools and self.verbose, nothing else
Executor_attributes == {"tools", "verbose"}

\* lines 560-566: a free-form context gets the data of the last result in memory put before
\* it, if the Executor has a memory and that result has a 'data' key
reasoning_context(args, mem) ==
    IF ~args.explicit /\ "memory" \in Executor_attributes /\ mem # <<>>
       /\ "data" \in DOMAIN mem[Len(mem)].result
    THEN "Previous data: " \o mem[Len(mem)].result.data \o "\n\nTask: " \o args.context
    ELSE args.context

\* what execute_tool draws from the command before it calls tool.execute
Executor_arguments(name, cmd) ==
    IF name = "CRM_Database_Query" THEN sanitize_sql(cmd)
    ELSE IF name = "CRM_Analytics" THEN sanitize_metric(cmd)
    ELSE IF name = "CRM_Reasoning" THEN reasoning_arguments(cmd)
    ELSE [none |-> TRUE]

\* the except branch of execute_tool: the exception becomes a failure that names the command
on_exception_propagate(e, cmd, calls_made) == Raised(e, calls_made)

on_exception(e, cmd, calls_made) == Outcome(Failure(e), cmd, None, calls_made)

\* tool.execute(...) inside the try of execute_tool: it raises, or does what done says
Executor_call(tool, arg, cmd, done, w) ==
    IF w.tool.kind = "raises"
    THEN on_exception(w.tool.message, cmd, <<Call(tool, arg)>>)
    ELSE [done EXCEPT !.invoked = <<Call(tool, arg)>> \o @]

\* Executor.execute_tool(tool_name, command) with self.tools holding the names in registry,
\* args being Executor_arguments(tool_name, command) and mem the records of the solver's
\* Memory, in the world w
Executor_execute_tool(registry, name, cmd, args, mem, w) ==
    IF name \notin registry
    THEN Outcome(Failure("Unknown tool: " \o name), None, None, <<>>)
    ELSE IF name = "CRM_Database_Query"
    THEN IF ~args.ok
         THEN Outcome(Failure("Invalid SQL (must start with SELECT): " \o Prefix(args.sql, 100)),
                      None, None, <<>>)
         ELSE Executor_call("CRM_Database_Query.execute", args.sql, cmd,
                            CRMQueryTool_execute(args.sql, w.store), w)
    ELSE IF name = "CRM_Analytics"
    THEN Executor_call("CRM_Analytics.execute", args.metric, cmd,
                       CRMAnalyticsTool_execute(args.metric, w.store), w)
    ELSE IF name = "CRM_Reasoning"
    THEN Executor_call("CRM_Reasoning.execute", reasoning_context(args, mem), cmd,
                       CRMReasoningTool_execute(args.task, reasoning_context(args, mem), w.llm),
                       w)
    ELSE Outcome(Failure("Unknown tool execution: " \o name), None, None, <<>>)

(***************************************************************************)
(* Executor.extract_explanation_and_command: the command of a generated    *)
(* tool command text.                                                      *)
(***************************************************************************)
FieldLabels == {"ANALYSIS:", "EXPLANATION:", "COMMAND:"}

\* any(next_line.startswith(p) for p in [...])
IsLabeled(line) == \E p \in FieldLabels : startswith(line, p)

\* a continuation that would run on past empty lines
RECURSIVE Continuation_PastEmptyLines(_, _, _)
Continuation_PastEmptyLines(lines, j, acc) ==
    IF j > Len(lines) THEN acc
    ELSE LET next_line == strip(lines[j]) IN
         IF next_line = "" THEN Continuation_PastEmptyLines(lines, j + 1, acc)
         ELSE IF ~IsLabeled(next_line)
         THEN Continuation_PastEmptyLines(lines, j + 1, acc \o " " \o next_line)
         ELSE acc

\* the inner loop: the lines from j on are added until one is empty or labeled
RECURSIVE Continuation(_, _, _)
Continuation(lines, j, acc) ==
    IF j > Len(lines) THEN acc
    ELSE LET next_line == strip(lines[j]) IN
         IF next_line # "" /\ ~IsLabeled(next_line)
         THEN Continuation(lines, j + 1, acc \o " " \o next_line)
         ELSE acc

\* the outer loop from line i on; every COMMAND: line assigns command anew
RECURSIVE CommandOfLines(_, _, _)
CommandOfLines(lines, i, acc) ==
    IF i > Len(lines) THEN acc
    ELSE LET line == strip(lines[i]) IN
         IF startswith(line, "ANALYSIS:") THEN CommandOfLines(lines, i + 1, acc)
         ELSE IF startswith(line, "EXPLANATION:") THEN CommandOfLines(lines, i + 1, acc)
         ELSE IF startswith(line, "COMMAND:")
         THEN CommandOfLines(lines, i + 1, Continuation(lines, i + 1, strip(From(line, 8))))
         ELSE CommandOfLines(lines, i + 1, acc)

extract_explanation_and_command(tool_command) ==
    strip(CommandOfLines(split(tool_command, "\n"), 1, ""))

(***************************************************************************)
(* Memory.                                                                 *)
(***************************************************************************)
\* Memory.clear: self.actions = [] binds a new list; self._query = None
Memory_clear_in_place(h, a) == [heap |-> [h EXCEPT ![a] = <<>>], actions |-> a, query |-> None]

Memory_clear(h, a) == [heap |-> Append(h, <<>>), actions |-> Len(h) + 1, query |-> None]

ActionRecord(step, tool, cmd, res) ==
    [step |-> step, tool |-> tool, command |-> cmd, result |-> res, timestamp |-> calls]

\* Memory.add_action: self.actions.append({...})
Memory_add_action(h, a, step, tool, cmd, res) ==
    [h EXCEPT ![a] = Append(@, ActionRecord(step, tool, cmd, res))]

(***************************************************************************)
(* AgentFlowCRMSolver.__init__ and the callers' configurations.            *)
(***************************************************************************)
\* one call with up to MaxSteps steps; two calls with up to MaxSeqSteps steps each; up to
\* MaxCalls calls of at most one step each
Configs ==
    {[max_steps |-> m, calls |-> 1] : m \in 0..MaxSteps}
    \cup {[max_steps |-> m, calls |-> 2] : m \in 0..MaxSeqSteps}
    \cup {[max_steps |-> m, calls |-> c] : m \in 0..1, c \in 2..MaxCalls}

\* the locals of solve before any call
SolveIdle ==
    /\ pc = "idle"
    /\ calls = 0
    /\ query = None
    /\ step_count = 0
    /\ final_result = NoResult
    /\ last_command = ""
    /\ consecutive_no_tool = 0
    /\ has_fetched_data = FALSE
    /\ has_done_reasoning = FALSE
    /\ last_tools = <<>>
    /\ tool_name = None
    /\ command = ""
    /\ result = NoResult
    /\ stop_verification = None
    /\ conclusion = None
    /\ reasoning_steps = <<>>
    /\ ret = NoReturn
    /\ returned = <<>>
    /\ selections = <<>>
    /\ stop_reason = None

\* self.memory = Memory(): one list, empty, and no query
MemoryNew ==
    /\ heap = << <<>> >>
    /\ actions = 1
    /\ mem_query = None

Init ==
    /\ \E c \in Configs : max_steps = c.max_steps /\ call_budget = c.calls
    /\ SolveIdle
    /\ MemoryNew
    /\ op = NoOp /\ op_pc = "none" /\ op_ret = NoOp /\ invoked = <<>>
    /\ threads = <<>>
    /\ clock = NoOp
    /\ flow = NoOp

Trace(step, type) == [step |-> step, type |-> type]

\* nothing in solve assigns self.max_steps; a sequential caller runs no other thread and no
\* component operation on its own
config_unchanged == UNCHANGED <<max_steps, call_budget, op_vars, threads, clock, flow>>

iteration_locals_unchanged == UNCHANGED <<tool_name, command, result, stop_verification, conclusion>>

loop_state_unchanged ==
    UNCHANGED <<step_count, final_result, last_command, consecutive_no_tool,
                has_fetched_data, has_done_reasoning, last_tools, selections, stop_reason>>

memory_unchanged == UNCHANGED <<heap, actions, mem_query>>

\* the local variables of solve stop existing when the call ends
locals_dead ==
    /\ step_count' = 0
    /\ final_result' = NoResult
    /\ last_command' = ""
    /\ consecutive_no_tool' = 0
    /\ has_fetched_data' = FALSE
    /\ has_done_reasoning' = FALSE
    /\ last_tools' = <<>>
    /\ tool_name' = None
    /\ command' = ""
    /\ result' = NoResult
    /\ stop_verification' = None
    /\ conclusion' = None

\* solve returns r: the caller now holds r and, through r.memory, the list it names
Return(r, h) ==
    /\ ret' = r
    /\ returned' = Append(returned, [call |-> calls, ret |-> r, memory |-> h[r.memory]])
    /\ pc' = "done"
    /\ locals_dead

\* an exception leaves solve
Raise ==
    /\ ret' = [kind |-> "raised"]
    /\ pc' = "raised"
    /\ locals_dead
    /\ UNCHANGED returned

(***************************************************************************)
(* AgentFlowCRMSolver.solve, one action per collaborator call.             *)
(***************************************************************************)
\* entry of solve: memory.clear(), memory.set_query(query), reasoning_steps = []
solve ==
    /\ pc \in {"idle", "done", "raised"}
    /\ calls < call_budget
    /\ calls' = calls + 1
    /\ \E q \in Queries :
          LET m == Memory_clear(heap, actions) IN
          /\ query' = q
          /\ heap' = m.heap
          /\ actions' = m.actions
          /\ mem_query' = q
    /\ reasoning_steps' = <<>>
    /\ ret' = NoReturn
    /\ locals_dead
    /\ selections' = <<>>
    /\ stop_reason' = None
    /\ pc' = "analyze"
    /\ UNCHANGED returned
    /\ config_unchanged

\* Planner.analyze_query inside try/except: a raise is replaced by a placeholder text
analyze_query ==
    /\ pc = "analyze"
    /\ \E answer \in {"text", LLMRaise} :
          reasoning_steps' = Append(reasoning_steps, Trace(0, "analysis"))
    /\ pc' = "ambiguity"
    /\ UNCHANGED <<calls, query, ret, returned>>
    /\ memory_unchanged /\ loop_state_unchanged /\ iteration_locals_unchanged
    /\ config_unchanged

\* Planner.is_query_ambiguous, called outside any try, and the ambiguity exit
is_query_ambiguous ==
    /\ pc = "ambiguity"
    /\ IF AmbiguousOf[query]
       THEN \E answer \in {"text", LLMRaise} :
               IF answer = LLMRaise
               THEN Raise /\ UNCHANGED <<reasoning_steps, heap>>
               ELSE LET h == Append(heap, <<>>) IN
                    /\ reasoning_steps' = Append(reasoning_steps, Trace(1, "clarification"))
                    /\ heap' = h
                    /\ Return([kind |-> "returned", exit |-> "ambiguity", success |-> TRUE,
                               results |-> 0, result_count |-> 0, steps |-> 1,
                               needs_clarification |-> TRUE, memory |-> Len(h),
                               synthesis |-> "llm"], h)
       ELSE /\ pc' = "loop"
            /\ UNCHANGED <<reasoning_steps, heap, ret, returned>>
            /\ UNCHANGED <<step_count, final_result, last_command, consecutive_no_tool,
                           has_fetched_data, has_done_reasoning, last_tools>>
            /\ iteration_locals_unchanged
    /\ UNCHANGED <<calls, query, actions, mem_query, selections, stop_reason>>
    /\ config_unchanged

\* the while condition; time_left is (time.time() - start_time) < self.max_time
loop_guard ==
    /\ pc = "loop"
    /\ \E time_left \in BOOLEAN :
          IF step_count < max_steps /\ time_left
          THEN /\ step_count' = step_count + 1
               /\ pc' = "planning"
               /\ UNCHANGED stop_reason
          ELSE /\ pc' = "finalize"
               /\ stop_reason' = "budget"
               /\ UNCHANGED step_count
    \* the locals of the previous iteration are dead here: each is assigned again before use
    /\ tool_name' = None
    /\ command' = ""
    /\ result' = NoResult
    /\ stop_verification' = None
    /\ conclusion' = None
    /\ UNCHANGED <<calls, query, ret, returned, reasoning_steps, final_result, last_command,
                   consecutive_no_tool, has_fetched_data, has_done_reasoning, last_tools,
                   selections>>
    /\ memory_unchanged
    /\ config_unchanged

\* consecutive_no_tool = 0 after a successful selection
reset_no_tool_missing(c) == c

reset_no_tool(c) == 0

\* the failed-selection record: memory.add_action(step_count, str(tool_name), sub_goal, "", ...)
record_failed_selection_skipped(h, a, step, name, res) == h

record_failed_selection(h, a, step, name, res) == Memory_add_action(h, a, step, name, "", res)

\* if consecutive_no_tool >= max_no_tool_attempts: the clarifying exit is taken
no_tool_limit_one_later(c) == c > max_no_tool_attempts

no_tool_limit_reached(c) == c >= max_no_tool_attempts

\* Planner.generate_next_step and extract_context_subgoal_and_tool inside try/except,
\* then the selection-failure branch up to its continue or to the fallback call
planning ==
    /\ pc = "planning"
    /\ \E next_step \in PlannerTexts \cup {LLMRaise} :
          LET name == IF next_step = LLMRaise THEN "CRM_Database_Query" ELSE ToolOf[next_step]
              failed == Failure("Unknown tool: " \o name)
          IN
          /\ tool_name' = name
          /\ selections' = Append(selections, name)
          /\ reasoning_steps' = Append(reasoning_steps, Trace(step_count, "planning"))
          /\ IF name = None \/ name \notin tools
             THEN /\ consecutive_no_tool' = consecutive_no_tool + 1
                  /\ IF no_tool_limit_reached(consecutive_no_tool')
                     THEN /\ pc' = "fallback"
                          /\ UNCHANGED <<final_result, heap>>
                     ELSE /\ final_result' = failed
                          /\ heap' = record_failed_selection(heap, actions, step_count, name, failed)
                          /\ pc' = "loop"
             ELSE /\ consecutive_no_tool' = reset_no_tool(consecutive_no_tool)
                  /\ pc' = "command_generation"
                  /\ UNCHANGED <<final_result, heap>>
    /\ UNCHANGED <<calls, query, ret, returned, actions, mem_query, step_count, last_command,
                   has_fetched_data, has_done_reasoning, last_tools, stop_reason,
                   command, result, stop_verification, conclusion>>
    /\ config_unchanged

\* Planner._generate_clarifying_response after repeated selection failures, outside any try
fallback_response ==
    /\ pc = "fallback"
    /\ \E answer \in {"text", LLMRaise} :
          IF answer = LLMRaise
          THEN Raise /\ UNCHANGED reasoning_steps
          ELSE /\ reasoning_steps' = Append(reasoning_steps, Trace(step_count, "fallback"))
               /\ Return([kind |-> "returned", exit |-> "fallback", success |-> TRUE,
                          results |-> 0, result_count |-> 0, steps |-> step_count,
                          needs_clarification |-> TRUE, memory |-> actions,
                          synthesis |-> "llm"], heap)
    /\ UNCHANGED <<calls, query, selections, stop_reason>>
    /\ memory_unchanged
    /\ config_unchanged

\* Executor.generate_tool_command and extract_explanation_and_command inside try/except
command_generation ==
    /\ pc = "command_generation"
    /\ \E cmd \in GeneratedCommands \cup {LLMRaise} :
          /\ command' = IF cmd = LLMRaise THEN FallbackCommand ELSE cmd
          /\ last_command' = command'
    /\ reasoning_steps' = Append(reasoning_steps, Trace(step_count, "command_generation"))
    /\ pc' = "execution"
    /\ UNCHANGED <<calls, query, ret, returned, step_count, final_result, consecutive_no_tool,
                   has_fetched_data, has_done_reasoning, last_tools, selections, stop_reason,
                   tool_name, result, stop_verification, conclusion>>
    /\ memory_unchanged
    /\ config_unchanged

\* last_tools.append(tool_name); if len(last_tools) > 4: last_tools.pop(0)
push_last_tools(lt, t) ==
    LET l == Append(lt, t) IN IF Len(l) > 4 THEN Tail(l) ELSE l

\* forced stop (a): data fetched and reasoning done after at least two steps
forced_stop_never(fetched, reasoned, sc) == FALSE

forced_stop(fetched, reasoned, sc) == fetched /\ reasoned /\ sc >= 2

\* forced stop (b): the window reads query, reasoning, query, reasoning
oscillation_either_order(lt) ==
    /\ Len(lt) >= 4
    /\ lt \in {<<"CRM_Database_Query", "CRM_Reasoning", "CRM_Database_Query", "CRM_Reasoning">>,
               <<"CRM_Reasoning", "CRM_Database_Query", "CRM_Reasoning", "CRM_Database_Query">>}

oscillation(lt) ==
    /\ Len(lt) >= 4
    /\ lt = <<"CRM_Database_Query", "CRM_Reasoning", "CRM_Database_Query", "CRM_Reasoning">>

\* Executor.execute_tool, memory.add_action, then the two forced-stop checks
execution ==
    /\ pc = "execution"
    /\ \E res \in execute_tool(tool_name, command) :
          LET fetched  == has_fetched_data \/ (tool_name = "CRM_Database_Query" /\ res.success)
              reasoned == has_done_reasoning \/ (tool_name = "CRM_Reasoning" /\ res.success)
              lt       == push_last_tools(last_tools, tool_name)
          IN
          /\ result' = res
          /\ final_result' = res
          /\ heap' = Memory_add_action(heap, actions, step_count, tool_name, command, res)
          /\ has_fetched_data' = fetched
          /\ has_done_reasoning' = reasoned
          /\ last_tools' = lt
          /\ IF forced_stop(fetched, reasoned, step_count)
             THEN pc' = "finalize" /\ stop_reason' = "forced"
             ELSE IF oscillation(lt)
                  THEN pc' = "finalize" /\ stop_reason' = "oscillation"
                  ELSE pc' = "verification" /\ UNCHANGED stop_reason
    /\ reasoning_steps' = Append(reasoning_steps, Trace(step_count, "execution"))
    /\ UNCHANGED <<calls, query, ret, returned, actions, mem_query, step_count, last_command,
                   consecutive_no_tool, selections, tool_name, command, stop_verification,
                   conclusion>>
    /\ config_unchanged

\* the except branch of the verification step
conclusion_on_exception(res) == IF res.success THEN "STOP" ELSE "CONTINUE"

\* Verifier.verificate_context and extract_conclusion inside try/except
verification ==
    /\ pc = "verification"
    /\ \E answer \in VerifierTexts \cup {LLMRaise} :
          /\ stop_verification' = answer
          /\ conclusion' = IF answer = LLMRaise THEN conclusion_on_exception(result)
                           ELSE VerdictOf[answer]
    /\ reasoning_steps' = Append(reasoning_steps, Trace(step_count, "verification"))
    /\ IF conclusion' = "STOP"
       THEN pc' = "finalize" /\ stop_reason' = "verifier"
       ELSE pc' = "loop" /\ UNCHANGED stop_reason
    /\ UNCHANGED <<calls, query, ret, returned, step_count, final_result, last_command,
                   consecutive_no_tool, has_fetched_data, has_done_reasoning, last_tools,
                   selections, tool_name, command, result>>
    /\ memory_unchanged
    /\ config_unchanged

\* Planner.generate_final_output and generate_direct_output inside try/except, and the
\* final return
SolveResult_any_success(answer) ==
    [kind |-> "returned", exit |-> "final",
     success |-> \E i \in 1..Len(heap[actions]) : heap[actions][i].result.success,
     results |-> final_result.results,
     result_count |-> final_result.result_count,
     steps |-> step_count,
     needs_clarification |-> FALSE,
     memory |-> actions,
     synthesis |-> IF answer = LLMRaise THEN "fallback" ELSE "llm"]

SolveResult(answer) ==
    [kind |-> "returned", exit |-> "final",
     success |-> final_result.success,
     results |-> final_result.results,
     result_count |-> final_result.result_count,
     steps |-> step_count,
     needs_clarification |-> FALSE,
     memory |-> actions,
     synthesis |-> IF answer = LLMRaise THEN "fallback" ELSE "llm"]

final_output_unguarded ==
    /\ pc = "finalize"
    /\ \E answer \in {"text", LLMRaise} :
          IF answer = LLMRaise
          THEN Raise /\ UNCHANGED reasoning_steps
          ELSE /\ reasoning_steps' = Append(reasoning_steps, Trace(step_count + 1, "final_output"))
               /\ Return(SolveResult(answer), heap)
    /\ UNCHANGED <<calls, query, selections, stop_reason>>
    /\ memory_unchanged
    /\ config_unchanged

final_output ==
    /\ pc = "finalize"
    /\ \E answer \in {"text", LLMRaise} :
          /\ reasoning_steps' = Append(reasoning_steps, Trace(step_count + 1, "final_output"))
          /\ Return(SolveResult(answer), heap)
    /\ UNCHANGED <<calls, query, selections, stop_reason>>
    /\ memory_unchanged
    /\ config_unchanged

Next ==
    \/ solve
    \/ analyze_query
    \/ is_query_ambiguous
    \/ loop_guard
    \/ planning
    \/ fallback_response
    \/ command_generation
    \/ execution
    \/ verification
    \/ final_output

Spec == Init /\ [][Next]_vars

\* every collaborator call comes back, so a statement of solve that can run does run
LiveSpec == Spec /\ WF_vars(Next)

(***************************************************************************)
(* The components' operations called on their own: Init draws the          *)
(* operation and its arguments, one action per operation applies it.       *)
(***************************************************************************)
\* a tool registered next to the three built-in ones
NewTool == "CRM_Export"

Registries == {available_tools, Append(available_tools, NewTool)}

Names(registry) == {registry[i] : i \in 1..Len(registry)}

\* command texts for CRM_Database_Query: what is put before, the statement, what follows
SqlPrefixes ==
    {"", "~~~sql\n", "CRM_Database_Query(query='", "Here is the query: ", "DROP TABLE leads; "}

SqlBodies ==
    {"SELECT * FROM leads",
     "select name from accounts limit 5",
     "SELECT created_at FROM leads",
     "SELECT 1; DROP TABLE leads",
     "DROP TABLE leads",
     "UPDATE leads SET ai_score = 0"}

SqlSuffixes == {"", ";", "\n~~~", "')", "; drop table leads", "');\nDROP TABLE leads;"}

SqlCommands == {p \o b \o s : p \in SqlPrefixes, b \in SqlBodies, s \in SqlSuffixes}

MetricCommands ==
    {"pipeline_value", "  Win_Rate \n", "CRM_Analytics(metric='lead_conversion_rate')",
     "~~~\npipeline_value\n~~~", "deal_velocity", "SELECT COUNT(*) FROM leads", ""}

ReasoningCommands ==
    {"CRM_Reasoning(task='summarize', context='top deals')", "explain the pipeline",
     "task='recommend'", "   ", "SELECT COUNT(*) FROM leads"}

ExecuteToolCall(registry, name, cmd) ==
    [name |-> "Executor.execute_tool", registry |-> registry, tool_name |-> name, command |-> cmd]

ExecuteToolCalls ==
    {ExecuteToolCall(available_tools, "CRM_Database_Query", c) : c \in SqlCommands}
    \cup {ExecuteToolCall(r, "CRM_Analytics", c) : r \in Registries, c \in MetricCommands}
    \cup {ExecuteToolCall(r, "CRM_Reasoning", c) : r \in Registries, c \in ReasoningCommands}
    \cup {ExecuteToolCall(r, n, c) : r \in Registries, n \in {NewTool, "CRM_Email", None},
                                     c \in {"export the leads", "SELECT * FROM leads"}}

\* CRMQueryTool.user_metadata["schema"]: the tables and columns the tool advertises
Schema ==
    [leads         |-> {"lead_id", "first_name", "last_name", "company_name", "email",
                        "lead_status", "lead_rating", "annual_revenue", "ai_score",
                        "created_at"},
     contacts      |-> {"contact_id", "first_name", "last_name", "account_id", "email",
                        "title", "department"},
     accounts      |-> {"account_id", "account_name", "industry", "annual_revenue",
                        "employee_count"},
     opportunities |-> {"opportunity_id", "opportunity_name", "account_id", "amount", "stage",
                        "probability", "close_date", "is_closed", "is_won"},
     activities    |-> {"activity_id", "activity_type", "subject", "status",
                        "related_to_type", "related_to_id", "created_at"}]

\* one plain query per advertised column
SchemaQueries ==
    UNION {{"SELECT " \o c \o " FROM " \o t : c \in Schema[t]} : t \in DOMAIN Schema}

\* CRMQueryTool.execute called directly; None is a call without a query
QueryToolCalls ==
    {[name |-> "CRMQueryTool.execute", query |-> q] :
        q \in SqlCommands \cup SchemaQueries \cup {None, ""}}

\* what each call draws from its command, worked out once
ExecuteToolArguments ==
    [c \in ExecuteToolCalls |-> Executor_arguments(c.tool_name, c.command)]

\* the value a planner answer carries after TOOL:
ToolFields ==
    {"CRM_Database_Query", "crm_database_query", "database query", "database_query",
     "Database", "CRM", "reasoning", "use CRM_Reasoning please", "analytics tool",
     "CRM_Export", "email", "send mail", "q",
     "None", "none", "NONE", "N/A", "n/a", "No Tool", "no tool", "no_tool", ""}

\* the answer has no TOOL line
NoField == "<no TOOL line>"

ExtractToolCall(registry, field, text) ==
    [name |-> "Planner.extract_context_subgoal_and_tool", available_tools |-> registry,
     field |-> field, next_step |-> text]

ExtractToolCalls ==
    {ExtractToolCall(r, f, "CONTEXT: none yet\nSUB_GOAL: next\nTOOL: " \o f) :
        r \in Registries, f \in ToolFields}
    \cup {ExtractToolCall(r, NoField, t) :
            r \in Registries,
            t \in {"", "CONTEXT: none yet\nSUB_GOAL: next", "Tool: CRM_Analytics",
                   "I would use TOOL: CRM_Analytics"}}
    \cup {ExtractToolCall(r, "", t) : r \in Registries, t \in {"TOOL:", "SUB_GOAL: next\n  TOOL:   \n"}}
    \cup {ExtractToolCall(r, "CRM_Reasoning", "TOOL: CRM_Analytics\n  TOOL:CRM_Reasoning  ") :
            r \in Registries}

AmbiguityQueries ==
    vague_patterns
    \cup {"show me top 10 opportunities by amount", "HUH", "  huh  ", "Huh???", "huh what",
          "explain this to me", "explain this to me please", "explain this lead",
          "please help me understand", "hello there", "deals", ""}

\* answers of the text generation to Executor.generate_tool_command
ToolCommandTexts ==
    {"COMMAND: SELECT 1\nmore text",
     "COMMAND: SELECT 1\n\nmore text",
     "COMMAND: SELECT 1\n   \nmore text",
     "ANALYSIS: count\nEXPLANATION: one query\nCOMMAND: SELECT COUNT(*)\n  FROM leads\n  WHERE ai_score > 5",
     "COMMAND: SELECT name\nFROM accounts\nEXPLANATION: the names\nLIMIT 5",
     "COMMAND: SELECT 1\nANALYSIS: none\nCOMMAND: SELECT 2\nFROM leads",
     "COMMAND:\nSELECT 1",
     "  COMMAND:   SELECT 1  ",
     "COMMAND: ~~~sql\nSELECT * FROM leads\n~~~",
     "Command: SELECT 1\nmore text",
     "SELECT 1",
     ""}

ExtractCommandCalls ==
    {[name |-> "Executor.extract_explanation_and_command", tool_command |-> t] :
        t \in ToolCommandTexts}

AmbiguityCalls == {[name |-> "Planner.is_query_ambiguous", query |-> q] : q \in AmbiguityQueries}

OpCalls ==
    ExecuteToolCalls \cup QueryToolCalls \cup ExtractToolCalls \cup AmbiguityCalls
    \cup ExtractCommandCalls

\* a solver with the default max_steps, no solve under way
\* the solver's Memory when the Executor is called: new, or holding the record of a
\* CRM_Database_Query that succeeded earlier in the same solve
MemoryAfterQuery ==
    /\ heap = << <<ActionRecord(1, "CRM_Database_Query", "SELECT COUNT(*) FROM leads",
                                Success(1, 1))>> >>
    /\ actions = 1
    /\ mem_query = None

OpInit ==
    /\ max_steps = 10 /\ call_budget = 0
    /\ SolveIdle
    /\ op \in OpCalls
    /\ \/ MemoryNew
       \/ op.name = "Executor.execute_tool" /\ op.tool_name = "CRM_Reasoning" /\ MemoryAfterQuery
    /\ op_pc = "call"
    /\ op_ret = NoOp
    /\ invoked = <<>>
    /\ threads = <<>>
    /\ clock = NoOp
    /\ flow = NoOp

op_frame == UNCHANGED <<op, solve_vars, memory_vars, threads, clock, flow>>

\* what the caller holds once the operation is over, and what the collaborators did (w)
Finish(o, w) ==
    /\ op_ret' = [result |-> o.result, command |-> o.command, query |-> o.query,
                  raised |-> o.raised, world |-> w]
    /\ invoked' = o.invoked
    /\ op_pc' = IF o.raised = None THEN "returned" ELSE "raised"

call_execute_tool ==
    /\ op_pc = "call"
    /\ op.name = "Executor.execute_tool"
    /\ \E w \in Worlds :
          Finish(Executor_execute_tool(Names(op.registry), op.tool_name, op.command,
                                       ExecuteToolArguments[op], heap[actions], w), w)
    /\ op_frame

call_query_tool ==
    /\ op_pc = "call"
    /\ op.name = "CRMQueryTool.execute"
    /\ \E store \in StoreOutcomes : Finish(CRMQueryTool_execute(op.query, store), [store |-> store])
    /\ op_frame

call_extract_context_subgoal_and_tool ==
    /\ op_pc = "call"
    /\ op.name = "Planner.extract_context_subgoal_and_tool"
    /\ op_ret' = [tool_name |-> Planner_extract_tool(op.next_step, op.available_tools)]
    /\ op_pc' = "returned"
    /\ UNCHANGED invoked
    /\ op_frame

\* Planner.is_query_ambiguous: the clarifying text is generated only for a vague query
call_is_query_ambiguous ==
    /\ op_pc = "call"
    /\ op.name = "Planner.is_query_ambiguous"
    /\ IF is_vague(op.query)
       THEN /\ invoked' = <<Call("get_llm_response", op.query)>>
            /\ \E answer \in LlmOutcomes :
                  IF answer.kind = "raises"
                  THEN op_pc' = "raised" /\ op_ret' = [raised |-> answer.message]
                  ELSE /\ op_pc' = "returned"
                       /\ op_ret' = [is_vague |-> TRUE, clarifying_response |-> answer.message]
       ELSE /\ op_pc' = "returned"
            /\ op_ret' = [is_vague |-> FALSE, clarifying_response |-> ""]
            /\ UNCHANGED invoked
    /\ op_frame

call_extract_explanation_and_command ==
    /\ op_pc = "call"
    /\ op.name = "Executor.extract_explanation_and_command"
    /\ op_ret' = [command |-> extract_explanation_and_command(op.tool_command)]
    /\ op_pc' = "returned"
    /\ UNCHANGED invoked
    /\ op_frame

OpNext ==
    \/ call_execute_tool
    \/ call_query_tool
    \/ call_extract_context_subgoal_and_tool
    \/ call_is_query_ambiguous
    \/ call_extract_explanation_and_command

OpSpec == OpInit /\ [][OpNext]_vars

(***************************************************************************)
(* Two callers inside solve of one solver instance at the same time.  Each *)
(* has its own locals; self.memory is the one Memory made by __init__.     *)
(* A step is one statement of solve that reads or writes self.memory.      *)
(***************************************************************************)
Threads == {1, 2}

ThreadQueries == {"show me top 10 opportunities by amount", "list the newest leads"}

\* the locals of a solve call before its first statement
ThreadIdle == [pc |-> "idle", query |-> None, step_count |-> 0, consecutive_no_tool |-> 0,
               ret |-> NoReturn]

ConcInit ==
    /\ max_steps = MaxThreadSteps /\ call_budget = 0
    /\ SolveIdle
    /\ MemoryNew
    /\ op = NoOp /\ op_pc = "none" /\ op_ret = NoOp /\ invoked = <<>>
    /\ threads = [t \in Threads |-> ThreadIdle]
    /\ clock = NoOp
    /\ flow = NoOp

conc_frame == UNCHANGED <<solve_vars, op_vars, clock, flow>>

\* the record a thread appends; the timestamp field tells whose it is
ThreadRecord(t, step, tool, cmd, res) ==
    [ActionRecord(step, tool, cmd, res) EXCEPT !.timestamp = t]

\* line 877: self.memory.clear()
thread_clear(t) ==
    /\ threads[t].pc = "idle"
    /\ \E q \in ThreadQueries :
          threads' = [threads EXCEPT ![t].pc = "set_query", ![t].query = q]
    /\ LET m == Memory_clear(heap, actions) IN
          heap' = m.heap /\ actions' = m.actions /\ mem_query' = m.query
    /\ conc_frame

\* line 878: self.memory.set_query(query)
thread_set_query(t) ==
    /\ threads[t].pc = "set_query"
    /\ mem_query' = threads[t].query
    /\ threads' = [threads EXCEPT ![t].pc = "loop"]
    /\ UNCHANGED <<heap, actions>>
    /\ conc_frame

\* lines 954-1032: an iteration whose planner answer selects no registered tool; the second
\* in a row returns the clarification with "memory": self.memory.get_actions() (line 1021)
thread_failed_selection(t) ==
    LET step   == threads[t].step_count + 1
        failed == Failure("Unknown tool: " \o None)
    IN
    /\ threads[t].pc = "loop"
    /\ threads[t].step_count < max_steps
    /\ IF threads[t].consecutive_no_tool + 1 >= max_no_tool_attempts
       THEN /\ threads' = [threads EXCEPT ![t].pc = "done", ![t].step_count = step,
                                          ![t].consecutive_no_tool = @ + 1,
                                          ![t].ret = [exit |-> "clarification",
                                                      memory |-> actions]]
            /\ UNCHANGED heap
       ELSE /\ threads' = [threads EXCEPT ![t].step_count = step,
                                          ![t].consecutive_no_tool = @ + 1]
            /\ heap' = [heap EXCEPT ![actions] =
                            Append(@, ThreadRecord(t, step, None, "", failed))]
    /\ UNCHANGED <<actions, mem_query>>
    /\ conc_frame

\* lines 1034-1092: an iteration that runs a tool and records its result (line 1092); the
\* verification after it stops the loop or not
thread_execution(t) ==
    LET step == threads[t].step_count + 1 IN
    /\ threads[t].pc = "loop"
    /\ threads[t].step_count < max_steps
    /\ \E stop \in BOOLEAN :
          threads' = [threads EXCEPT ![t].step_count = step,
                                     ![t].consecutive_no_tool = reset_no_tool(@),
                                     ![t].pc = IF stop THEN "final" ELSE "loop"]
    /\ heap' = [heap EXCEPT ![actions] =
                    Append(@, ThreadRecord(t, step, "CRM_Database_Query", FallbackCommand,
                                           Success(1, 1)))]
    /\ UNCHANGED <<actions, mem_query>>
    /\ conc_frame

\* lines 1153-1190: the final answer, with "memory": self.memory.get_actions() (line 1184)
thread_final_output(t) ==
    /\ \/ threads[t].pc = "final"
       \/ threads[t].pc = "loop" /\ threads[t].step_count >= max_steps
    /\ threads' = [threads EXCEPT ![t].pc = "done",
                                  ![t].ret = [exit |-> "final", memory |-> actions]]
    /\ memory_unchanged
    /\ conc_frame

ConcNext ==
    \/ \E t \in Threads : thread_clear(t)
    \/ \E t \in Threads : thread_set_query(t)
    \/ \E t \in Threads : thread_failed_selection(t)
    \/ \E t \in Threads : thread_execution(t)
    \/ \E t \in Threads : thread_final_output(t)

ConcSpec == ConcInit /\ [][ConcNext]_vars

(***************************************************************************)
(* solve with a clock.  Every collaborator call takes some duration; the   *)
(* clock is read where solve calls time.time().  clock holds what this     *)
(* needs of the locals of solve; now is time.time() - start_time.          *)
(***************************************************************************)
Durations == 0..MaxDuration

TimedIdle(budget) ==
    [pc |-> "idle", max_time |-> budget, now |-> 0, step_count |-> 0,
     consecutive_no_tool |-> 0, iteration_start |-> 0, longest |-> 0, call_count |-> 0,
     execution_time |-> 0, exit |-> None]

TimeInit ==
    /\ max_steps \in 0..MaxTimedSteps /\ call_budget = 0
    /\ SolveIdle
    /\ MemoryNew
    /\ op = NoOp /\ op_pc = "none" /\ op_ret = NoOp /\ invoked = <<>>
    /\ threads = <<>>
    /\ \E budget \in 0..MaxTime : clock = TimedIdle(budget)
    /\ flow = NoOp

time_frame == UNCHANGED <<solve_vars, memory_vars, op_vars, threads, flow>>

\* a collaborator call that takes d: the clock after it
Elapse(c, d) ==
    [c EXCEPT !.now = @ + d, !.longest = IF d > @ THEN d ELSE @, !.call_count = @ + 1]

\* line 876: start_time = time.time()
timed_solve ==
    /\ clock.pc = "idle"
    /\ clock' = [clock EXCEPT !.pc = "analyze"]
    /\ time_frame

\* lines 885-905: Planner.analyze_query
timed_analyze_query ==
    /\ clock.pc = "analyze"
    /\ \E d \in Durations : clock' = [Elapse(clock, d) EXCEPT !.pc = "ambiguity"]
    /\ time_frame

\* lines 907-940: is_query_ambiguous generates the clarifying text of a vague query;
\* execution_time is taken after it (line 914)
timed_is_query_ambiguous ==
    /\ clock.pc = "ambiguity"
    /\ \/ \E d \in Durations :
             clock' = [Elapse(clock, d) EXCEPT !.pc = "done", !.exit = "ambiguity",
                                               !.execution_time = clock.now + d]
       \/ clock' = [clock EXCEPT !.pc = "loop"]
    /\ time_frame

\* line 954: while step_count < self.max_steps and (time.time() - start_time) < self.max_time
timed_loop_guard ==
    /\ clock.pc = "loop"
    /\ IF clock.step_count < max_steps /\ clock.now < clock.max_time
       THEN clock' = [clock EXCEPT !.pc = "planning", !.step_count = @ + 1,
                                   !.iteration_start = clock.now, !.call_count = 0]
       ELSE clock' = [clock EXCEPT !.pc = "finalize"]
    /\ time_frame

\* lines 957-1035: Planner.generate_next_step, then the selection
timed_planning ==
    /\ clock.pc = "planning"
    /\ \E d \in Durations, selected \in BOOLEAN :
          LET c == Elapse(clock, d) IN
          IF selected
          THEN clock' = [c EXCEPT !.pc = "command_generation",
                                  !.consecutive_no_tool = reset_no_tool(@)]
          ELSE IF c.consecutive_no_tool + 1 >= max_no_tool_attempts
          THEN clock' = [c EXCEPT !.pc = "fallback", !.consecutive_no_tool = @ + 1]
          ELSE clock' = [c EXCEPT !.pc = "loop", !.consecutive_no_tool = @ + 1]
    /\ time_frame

\* lines 999-1001: the clarifying text of the escalated exit, then execution_time
timed_fallback_response ==
    /\ clock.pc = "fallback"
    /\ \E d \in Durations :
          clock' = [Elapse(clock, d) EXCEPT !.pc = "done", !.exit = "clarification",
                                            !.execution_time = clock.now + d]
    /\ time_frame

\* lines 1037-1060: Executor.generate_tool_command
timed_command_generation ==
    /\ clock.pc = "command_generation"
    /\ \E d \in Durations : clock' = [Elapse(clock, d) EXCEPT !.pc = "execution"]
    /\ time_frame

\* lines 1062-1115: Executor.execute_tool (one record-store or text-generation call), then
\* the forced-stop checks
timed_execution ==
    /\ clock.pc = "execution"
    /\ \E d \in Durations, forced \in BOOLEAN :
          clock' = [Elapse(clock, d) EXCEPT !.pc = IF forced THEN "finalize" ELSE "verification"]
    /\ time_frame

\* lines 1117-1145: Verifier.verificate_context, then break on STOP
timed_verification ==
    /\ clock.pc = "verification"
    /\ \E d \in Durations, stop \in BOOLEAN :
          clock' = [Elapse(clock, d) EXCEPT !.pc = IF stop THEN "finalize" ELSE "loop"]
    /\ time_frame

\* line 1148: execution_time = round(time.time() - start_time, 2), before the final answer
\* is generated
timed_final_output ==
    /\ clock.pc = "finalize"
    /\ clock' = [clock EXCEPT !.pc = "done", !.exit = "final", !.execution_time = clock.now]
    /\ time_frame

TimeNext ==
    \/ timed_solve
    \/ timed_analyze_query
    \/ timed_is_query_ambiguous
    \/ timed_loop_guard
    \/ timed_planning
    \/ timed_fallback_response
    \/ timed_command_generation
    \/ timed_execution
    \/ timed_verification
    \/ timed_final_output

TimeSpec == TimeInit /\ [][TimeNext]_vars

(***************************************************************************)
(* AgentFlowSolver of agentflow_crm.py, the solver behind the query        *)
(* endpoint.  flow holds the solver instance (max_steps, max_time, the     *)
(* records of its Memory) and the locals of its solve; every collaborator  *)
(* call takes some duration of the clock.                                  *)
(***************************************************************************)
\* what llm.generate returns to Planner.generate_sql
SqlResponses ==
    {"SELECT COUNT(*) FROM leads",
     "~~~sql\nSELECT * FROM leads LIMIT 50;\n~~~",
     "  DROP TABLE leads  ",
     ""}

\* Python: s.split(Fence)[1] for s starting with the fence: the text up to the next fence
RECURSIVE UpToFence(_)
UpToFence(s) ==
    IF s = "" \/ startswith(s, Fence) THEN ""
    ELSE CharAt(s, 1) \o UpToFence(From(s, 1))

\* Planner.generate_sql after llm.generate: the fence and the language tag are dropped, the
\* text is stripped and ends with a semicolon
generate_sql(response) ==
    LET stripped == strip(response)
        unfenced == IF startswith(stripped, Fence) THEN UpToFence(From(stripped, 3))
                    ELSE stripped
        untagged == IF startswith(stripped, Fence) /\ startswith(unfenced, "sql")
                    THEN From(unfenced, 3) ELSE unfenced
        sql      == strip(untagged)
    IN  IF Len(sql) > 0 /\ CharAt(sql, Len(sql)) = ";" THEN sql ELSE sql \o ";"

SqlOf == [r \in SqlResponses |-> generate_sql(r)]

GeneratedSql == {SqlOf[r] : r \in SqlResponses}

\* CRMDatabaseTool.execute(query), up to the call of execute_query: the error it returns
\* without calling the record store, None when it goes on to call it
CRMDatabaseTool_rejection(q) ==
    LET query_upper == upper(strip(q))
        found       == {i \in 1..Len(dangerous) : Contains(query_upper, dangerous[i])}
    IN  IF q = "" THEN "No query provided"
        ELSE IF ~startswith(query_upper, "SELECT") THEN "Only SELECT queries allowed"
        ELSE IF found # {}
        THEN "Dangerous keyword '" \o dangerous[CHOOSE i \in found : \A j \in found : i <= j]
                 \o "' not allowed"
        ELSE None

RejectionOf == [s \in GeneratedSql |-> CRMDatabaseTool_rejection(s)]

\* Executor.execute_tool("crm_database_query", sql): the tool is registered, so the result
\* is CRMDatabaseTool.execute(sql); store is what execute_query does when it is called
Flow_execute_tool(sql, store) ==
    IF RejectionOf[sql] # None THEN Failure(RejectionOf[sql])
    ELSE IF store.kind = "raises" THEN Failure(store.message)
    ELSE Success(store.n, IF store.n > 100 THEN 100 ELSE store.n)

\* a Verifier that asks for another step when the query found nothing
Verifier_verify_result_retry_when_empty(res) ==
    IF ~res.success \/ res.result_count = 0 THEN "RETRY" ELSE "STOP"

\* Verifier.verify_result: the action it returns
Verifier_verify_result(res) ==
    IF ~res.success THEN "RETRY"
    ELSE IF res.result_count >= 0 THEN "STOP"
    ELSE "STOP"

\* Memory.add_action of agentflow_crm
FlowRecord(step, sql, res) ==
    [step |-> step, tool |-> "crm_database_query", command |-> sql, result |-> res]

FlowIdle(steps, budget) ==
    [pc |-> "idle", max_steps |-> steps, max_time |-> budget, calls |-> 0, now |-> 0,
     sql |-> None, step |-> 0, result |-> NoResult, actions |-> <<>>, action |-> None,
     generated |-> 0, stopped_by |-> None, ret |-> NoOp]

FlowInit ==
    /\ max_steps = 10 /\ call_budget = 0
    /\ SolveIdle
    /\ MemoryNew
    /\ op = NoOp /\ op_pc = "none" /\ op_ret = NoOp /\ invoked = <<>>
    /\ threads = <<>>
    /\ clock = NoOp
    /\ \E steps \in 0..MaxFlowSteps, budget \in 0..MaxTime : flow = FlowIdle(steps, budget)

flow_frame == UNCHANGED <<solve_vars, memory_vars, op_vars, threads, clock>>

\* lines 346-347: start_time = time.time(); self.memory.clear()
flow_solve ==
    /\ flow.pc \in {"idle", "done", "raised"}
    /\ flow.calls < MaxFlowCalls
    /\ flow' = [flow EXCEPT !.pc = "analyze", !.calls = @ + 1, !.now = 0, !.actions = <<>>,
                            !.sql = None, !.step = 0, !.result = NoResult, !.action = None,
                            !.generated = 0, !.stopped_by = None, !.ret = NoOp]
    /\ flow_frame

\* line 358: analysis = self.planner.analyze_query(query), an LLM call outside any try
flow_analyze_query ==
    /\ flow.pc = "analyze"
    /\ \E d \in Durations :
          \/ flow' = [flow EXCEPT !.pc = "generate_sql", !.now = @ + d]
          \/ flow' = [flow EXCEPT !.pc = "raised", !.now = @ + d, !.ret = [kind |-> "raised"]]
    /\ flow_frame

\* line 359: sql = self.planner.generate_sql(query), outside any try; then step = 0,
\* result = None
flow_generate_sql ==
    /\ flow.pc = "generate_sql"
    /\ \E d \in Durations :
          \/ \E response \in SqlResponses :
                flow' = [flow EXCEPT !.pc = "loop", !.now = @ + d, !.sql = SqlOf[response],
                                     !.generated = @ + 1]
          \/ flow' = [flow EXCEPT !.pc = "raised", !.now = @ + d, !.ret = [kind |-> "raised"]]
    /\ flow_frame

\* line 368: while step < self.max_steps and (time.time() - start_time) < self.max_time
flow_loop_guard ==
    /\ flow.pc = "loop"
    /\ IF flow.step < flow.max_steps /\ flow.now < flow.max_time
       THEN flow' = [flow EXCEPT !.pc = "execute", !.step = @ + 1]
       ELSE flow' = [flow EXCEPT !.pc = "finish",
                                 !.stopped_by = IF flow.step < flow.max_steps THEN "max_time"
                                                ELSE "max_steps"]
    /\ flow_frame

\* lines 375-384: result = self.executor.execute_tool(...); self.memory.add_action(...)
flow_execution ==
    /\ flow.pc = "execute"
    /\ \E d \in Durations, store \in StoreOutcomes :
          LET res == Flow_execute_tool(flow.sql, store)
          IN  flow' = [flow EXCEPT !.pc = "verify", !.now = @ + d, !.result = res,
                                   !.actions = Append(@, FlowRecord(flow.step, flow.sql, res))]
    /\ flow_frame

\* lines 390-398: verification = self.verifier.verify_result(...); break on STOP
flow_verification ==
    /\ flow.pc = "verify"
    /\ LET verdict == Verifier_verify_result(flow.result)
       IN  flow' = [flow EXCEPT !.action = verdict,
                                !.pc = IF verdict = "STOP" THEN "finish" ELSE "loop",
                                !.stopped_by = IF verdict = "STOP" THEN "verifier" ELSE @]
    /\ flow_frame

\* lines 401-427: the two return values; step = 0 leaves result = None
flow_return ==
    /\ flow.pc = "finish"
    /\ flow' = [flow EXCEPT
                  !.pc = "done",
                  !.ret = IF flow.step > 0 /\ flow.result.success
                          THEN [kind |-> "returned", success |-> TRUE,
                                generated_sql |-> flow.sql,
                                result_count |-> flow.result.result_count,
                                memory |-> flow.actions, execution_time |-> flow.now,
                                steps |-> flow.step]
                          ELSE [kind |-> "returned", success |-> FALSE,
                                error |-> IF flow.step > 0 THEN flow.result.error
                                          ELSE "No result"]]
    /\ flow_frame

FlowNext ==
    \/ flow_solve
    \/ flow_analyze_query
    \/ flow_generate_sql
    \/ flow_loop_guard
    \/ flow_execution
    \/ flow_verification
    \/ flow_return

FlowSpec == FlowInit /\ [][FlowNext]_vars

(***************************************************************************)
(* Vocabulary of the properties.                                           *)
(***************************************************************************)
\* the ActionRecords of self.memory
Mem == heap[actions]

Last(seq) == seq[Len(seq)]

Ended == pc \in {"done", "raised"}

Returned == pc = "done"

TraceHas(step, type) ==
    \E i \in 1..Len(reasoning_steps) : reasoning_steps[i] = Trace(step, type)

TraceCount(type) ==
    Cardinality({i \in 1..Len(reasoning_steps) : reasoning_steps[i].type = type})

StepsAreOneToN(records) == \A i \in 1..Len(records) : records[i].step = i

IsSelectionFailure(rec) ==
    rec.command = "" /\ ~rec.result.success /\ startswith(rec.result.error, "Unknown tool")

IsRegisteredTool(rec) == rec.tool \in tools

\* the registered tools that were selected (and so executed), in order
ExecutedTools(records) ==
    LET kept == SelectSeq(records, IsRegisteredTool)
    IN  [i \in 1..Len(kept) |-> kept[i].tool]

LastFour(seq) == IF Len(seq) >= 4 THEN SubSeq(seq, Len(seq) - 3, Len(seq)) ELSE <<>>

HasSucceeded(records, tool) ==
    \E i \in 1..Len(records) : records[i].tool = tool /\ records[i].result.success

RECURSIVE TrailingFailures(_)
TrailingFailures(sel) ==
    IF sel = <<>> \/ Last(sel) \in tools THEN 0
    ELSE 1 + TrailingFailures(SubSeq(sel, 1, Len(sel) - 1))

TwoFailuresInARow ==
    /\ Len(selections) >= 2
    /\ Last(selections) \notin tools
    /\ selections[Len(selections) - 1] \notin tools

(***************************************************************************)
(* C1. solve never raises to its caller, whatever the collaborators do,    *)
(* a raising text-generation call included.  The code calls                *)
(* _generate_clarifying_response outside any try, twice.                   *)
(***************************************************************************)
C1_SolveNeverRaises == pc # "raised"

(***************************************************************************)
(* C2. The steps value of every returned SolveResult is at most max_steps, *)
(* on all three exits.  The ambiguity exit reports steps = 1 even when     *)
(* max_steps = 0.                                                          *)
(***************************************************************************)
C2_StepsAtMostMaxSteps == Returned => ret.steps <= max_steps

(***************************************************************************)
(* C3. At every point of a solve and in every returned memory, the step    *)
(* fields of the ActionRecords read 1, 2, ..., N in order.                 *)
(***************************************************************************)
C3_StepsAreOneToN ==
    /\ StepsAreOneToN(Mem)
    /\ \A k \in 1..Len(returned) : StepsAreOneToN(returned[k].memory)

\* a returned memory that mixes a failed selection, a failed and a successful execution
C3_Witness ==
    /\ Returned
    /\ Len(Mem) >= 3
    /\ ret.memory = actions
    /\ \E i \in 1..Len(Mem) : IsSelectionFailure(Mem[i])
    /\ \E i \in 1..Len(Mem) : Mem[i].tool \in tools /\ ~Mem[i].result.success
    /\ \E i \in 1..Len(Mem) : Mem[i].tool \in tools /\ Mem[i].result.success

(***************************************************************************)
(* C4. When two consecutive iterations fail to resolve a registered tool,  *)
(* solve returns in the second one with needs_clarification and success    *)
(* true, no results, result_count 0, and plans, generates, executes,       *)
(* verifies and synthesises nothing more.  The fallback text is generated  *)
(* outside any try (C1), so solve may raise instead of returning.          *)
(***************************************************************************)
C4_TwoFailuresReturnClarification ==
    TwoFailuresInARow =>
        /\ pc \in {"fallback", "done"}
        /\ Last(reasoning_steps).type \in {"planning", "fallback"}
        /\ Returned =>
              /\ ret.kind = "returned"
              /\ ret.needs_clarification /\ ret.success
              /\ ret.results = 0 /\ ret.result_count = 0
              /\ ret.steps = Len(selections)
              /\ Last(reasoning_steps) = Trace(Len(selections), "fallback")

(***************************************************************************)
(* C5. The consecutive-failure counter is zero right after every iteration *)
(* that selected a registered tool (it counts the failed selections since  *)
(* the last successful one), the clarifying exit is taken only when the    *)
(* two most recent iterations both failed selection, and a single failure  *)
(* is recorded as a failed ActionRecord, the loop going on: control is at  *)
(* the loop condition or the next planning step, and the loop has ended    *)
(* only if the step or time budget ended it.                               *)
(***************************************************************************)
C5_CounterResetsOnSelection ==
    /\ ~Ended /\ pc # "idle" => consecutive_no_tool = TrailingFailures(selections)
    /\ pc \in {"command_generation", "execution", "verification"} => consecutive_no_tool = 0
    /\ pc = "fallback" \/ (Returned /\ ret.exit = "fallback") => TwoFailuresInARow
    /\ (~Ended /\ selections # <<>> /\ Last(selections) \notin tools /\ ~TwoFailuresInARow) =>
          /\ pc \in {"loop", "planning"} \/ (pc = "finalize" /\ stop_reason = "budget")
          /\ Mem # <<>>
          /\ Last(Mem) = ActionRecord(Len(selections), Last(selections), "",
                                      Failure("Unknown tool: " \o Last(selections)))

\* a failure, a successful selection, a failure again, and the loop is planning once more
C5_Witness ==
    /\ pc = "planning"
    /\ Len(selections) = 3
    /\ selections[1] \notin tools /\ selections[2] \in tools /\ selections[3] \notin tools
    /\ Len(Mem) = 3

(***************************************************************************)
(* C6. Forced stop (a): once a CRM_Database_Query action and a             *)
(* CRM_Reasoning action have both succeeded in this solve (so after at     *)
(* least two steps), the loop has ended at the step of the last execution  *)
(* and the Verifier was not consulted for that step.                       *)
(***************************************************************************)
C6_ForcedStopSkipsVerifier ==
    (/\ HasSucceeded(Mem, "CRM_Database_Query")
     /\ HasSucceeded(Mem, "CRM_Reasoning")
     /\ Last(Mem).step >= 2) =>
        /\ pc \in {"finalize", "done"}
        /\ stop_reason = "forced"
        /\ ~TraceHas(Last(Mem).step, "verification")
        /\ \A i \in 1..Len(reasoning_steps) :
              reasoning_steps[i].step > Last(Mem).step => reasoning_steps[i].type = "final_output"

\* data at step 1, another tool at step 2, reasoning at step 3: stopped without a verdict
C6_Witness ==
    /\ Returned
    /\ stop_reason = "forced"
    /\ Len(Mem) = 3
    /\ Mem[1].tool = "CRM_Database_Query" /\ Mem[1].result.success
    /\ Mem[3].tool = "CRM_Reasoning" /\ Mem[3].result.success
    /\ TraceHas(2, "verification") /\ ~TraceHas(3, "verification")

(***************************************************************************)
(* C7. Oscillation guard (b): after an execution, if the last four         *)
(* selected tools of the solve are CRM_Database_Query, CRM_Reasoning,      *)
(* CRM_Database_Query, CRM_Reasoning in that order, the loop has ended at  *)
(* that step and the Verifier was not consulted for it; the guard ends the *)
(* loop for no other last four selected tools, the reverse alternation     *)
(* included.                                                               *)
(***************************************************************************)
OscillationPattern ==
    <<"CRM_Database_Query", "CRM_Reasoning", "CRM_Database_Query", "CRM_Reasoning">>

ConclusionFields(text) ==
    LET lines == split(text, "\n")
    IN  {strip(From(strip(lines[i]), 11)) :
            i \in {j \in 1..Len(lines) : startswith(strip(lines[j]), "CONCLUSION:")}}

\* for each Verifier text: does some CONCLUSION field contain STOP, is there any field
HasStopConclusion ==
    [t \in VerifierTexts |-> \E f \in ConclusionFields(t) : Contains(upper(f), "STOP")]

HasConclusionField == [t \in VerifierTexts |-> ConclusionFields(t) # {}]

Verified == stop_verification # None

C9_FinalizationAlwaysRuns ==
    /\ stop_reason # None => pc \in {"finalize", "done"}
    /\ TraceCount("final_output") <= 1
    /\ TraceCount("final_output") = 1 =>
          /\ Last(reasoning_steps).type = "final_output"
          /\ Returned /\ ret.exit = "final"
    /\ (Returned /\ stop_reason # None) =>
          /\ ret.kind = "returned" /\ ret.exit = "final"
          /\ ret.synthesis \in {"llm", "fallback"}
          /\ TraceCount("final_output") = 1
          /\ Last(reasoning_steps) = Trace(ret.steps + 1, "final_output")
          /\ \A i \in 1..Len(reasoning_steps) - 1 : reasoning_steps[i].step <= ret.steps
          /\ ret.memory = actions
          /\ Last(returned).memory = Mem
    /\ pc = "finalize" => stop_reason \in {"verifier", "forced", "oscillation", "budget"}

\* max_steps = 0: empty Memory, synthesis failed, fallback texts returned
C9_Witness ==
    /\ Returned
    /\ stop_reason = "budget"
    /\ max_steps = 0
    /\ Mem = <<>>
    /\ ret.synthesis = "fallback"
    /\ reasoning_steps = <<Trace(0, "analysis"), Trace(1, "final_output")>>

(***************************************************************************)
(* C10. For solve calls made one after another on one solver instance, the *)
(* memory a call returns holds only ActionRecords created during that call *)
(* (Memory is empty and holds the call's query when its first step         *)
(* starts), and a later call leaves the memory sequences returned by       *)
(* earlier calls as they were.                                             *)
(***************************************************************************)
C10_MemoryIsSolveScoped ==
    /\ \A k \in 1..Len(returned) :
          /\ \A i \in 1..Len(returned[k].memory) :
                returned[k].memory[i].timestamp = returned[k].call
          /\ heap[returned[k].ret.memory] = returned[k].memory
    /\ pc \in {"analyze", "ambiguity"} => Mem = <<>> /\ mem_query = query
    /\ (pc = "planning" /\ step_count = 1) => Mem = <<>> /\ mem_query = query
    /\ \A i \in 1..Len(Mem) : Mem[i].timestamp = calls

\* two calls on one instance have returned, each with a list and records of its own
C10_Witness ==
    /\ Len(returned) = 2
    /\ returned[1].memory # <<>>
    /\ returned[2].memory # <<>>
    /\ returned[1].ret.memory # returned[2].ret.memory
    /\ Returned

(***************************************************************************)
(* Vocabulary of the properties about single operations.                   *)
(***************************************************************************)
OpReturned == op_pc = "returned"

IsExecuteTool == op.name = "Executor.execute_tool"

IsQueryToolCall == op.name = "CRMQueryTool.execute"

IsExtractTool == op.name = "Planner.extract_context_subgoal_and_tool"

IsAmbiguityCall == op.name = "Planner.is_query_ambiguous"

\* the command text handed to the structured-query tool, directly or through the Executor
QueryCommand ==
    IF IsQueryToolCall THEN op.query
    ELSE IF IsExecuteTool /\ op.tool_name = "CRM_Database_Query" THEN op.command
    ELSE None

\* kw (lower case) stands in s as a word of its own, in any letter case
HasStandaloneKeyword(s, kw) ==
    \E p \in 1..Len(s) :
        /\ LitAtIgnoreCase(s, p, kw)
        /\ (p = 1 \/ ~IsWordChar(CharAt(s, p - 1)))
        /\ (p + Len(kw) > Len(s) \/ ~IsWordChar(CharAt(s, p + Len(kw))))

\* the statements handed to execute_query during the operation
StoreCalls == SelectSeq(invoked, LAMBDA c : c.callee = "execute_query")

(***************************************************************************)
(* C12. A command that contains DROP as a standalone keyword, given to the *)
(* structured-query tool directly or through Executor.execute_tool, ends   *)
(* in a result with success = false, wherever DROP stands in the text.     *)
(* Through the Executor the SELECT statement is cut out of the command and *)
(* the DROP around it is discarded before the tool sees the text.          *)
(***************************************************************************)
C12_DropIsRejected ==
    (OpReturned /\ QueryCommand \notin {None, ""} /\ HasStandaloneKeyword(QueryCommand, "drop"))
        => ~op_ret.result.success

\* the same for the tool called directly, where it holds
C12_DropIsRejectedByTheTool ==
    (OpReturned /\ IsQueryToolCall /\ op.query \notin {None, ""}
        /\ HasStandaloneKeyword(op.query, "drop"))
        => ~op_ret.result.success /\ invoked = <<>>

\* the Executor ran the SELECT of a command that holds a DROP statement
C12_DropDiscarded ==
    /\ OpReturned
    /\ IsExecuteTool
    /\ op.command = "DROP TABLE leads; SELECT * FROM leads"
    /\ op_ret.result.success
    /\ StoreCalls = <<Call("execute_query", "SELECT * FROM leads")>>

(***************************************************************************)
(* C13. Whatever command text Executor.execute_tool receives for           *)
(* CRM_Database_Query, every statement handed to execute_query begins with *)
(* SELECT and contains none of the seven dangerous keywords, in any letter *)
(* case; and when execute_query is not called, the result is a failure.    *)
(***************************************************************************)
IsSafeSelect(statement) ==
    /\ startswith(upper(statement), "SELECT")
    /\ \A i \in 1..Len(dangerous) : ~Contains(upper(statement), dangerous[i])

C13_OnlySafeSelectsReachTheStore ==
    (IsExecuteTool /\ op.tool_name = "CRM_Database_Query" /\ op_pc # "call")
        => /\ \A i \in 1..Len(StoreCalls) : IsSafeSelect(StoreCalls[i].arg)
           /\ StoreCalls = <<>> => (OpReturned /\ ~op_ret.result.success)

\* a fenced statement reached the record store without its fence
C13_Witness ==
    /\ OpReturned
    /\ IsExecuteTool
    /\ op.command = "~~~sql\nSELECT * FROM leads\n~~~"
    /\ StoreCalls = <<Call("execute_query", "SELECT * FROM leads")>>
    /\ op_ret.result.success

\* a statement with a keyword in lower case was refused before the record store
C13_WitnessRefused ==
    /\ OpReturned
    /\ IsExecuteTool
    /\ op.command = "SELECT * FROM leads; drop table leads"
    /\ invoked = <<Call("CRM_Database_Query.execute", "SELECT * FROM leads; drop table leads")>>
    /\ op_ret.result = Failure("Dangerous keyword 'DROP' not allowed")

(***************************************************************************)
(* C14. With CRM_Database_Query registered, a TOOL field that is a part of *)
(* a registered name or holds one, letter case ignored, resolves to the    *)
(* first such name: 'database_query' and 'Database' resolve to             *)
(* CRM_Database_Query.  A TOOL field with no substring relation with any   *)
(* registered name resolves to nil, and 'database query', written with a   *)
(* blank, is such a field.                                                 *)
(***************************************************************************)
\* the field after TOOL: and a registered name: one is a part of the other
SubstringRelated(field, registered) ==
    Contains(lower(field), lower(registered)) \/ Contains(lower(registered), lower(field))

C14_FuzzyMatchIsSubstringMatch ==
    (OpReturned /\ IsExtractTool /\ op.field # NoField)
        => /\ op.field \in {"database_query", "Database", "crm_database_query"}
                => op_ret.tool_name = "CRM_Database_Query"
           /\ op.field = "database query" => op_ret.tool_name = None
           /\ (\A i \in 1..Len(op.available_tools) :
                    ~SubstringRelated(op.field, op.available_tools[i]))
                => op_ret.tool_name = None

\* the planner wrote 'database query' and no tool was selected
C14_Witness ==
    /\ OpReturned
    /\ IsExtractTool
    /\ op.field = "database query"
    /\ "CRM_Database_Query" \in Names(op.available_tools)
    /\ op_ret.tool_name = None

\* the statement as first written: 'database query' resolves to CRM_Database_Query
C14_DatabaseQueryResolves ==
    (OpReturned /\ IsExtractTool /\ op.field = "database query")
        => op_ret.tool_name = "CRM_Database_Query"

(***************************************************************************)
(* C15. The tool that Planner.extract_context_subgoal_and_tool returns is  *)
(* nil or one of the registered names, for every text: a TOOL field of     *)
(* 'none', 'n/a' or 'no tool' in any letter case, an empty TOOL field and  *)
(* a missing TOOL line all give nil.  An empty TOOL field is returned as   *)
(* the empty string: the test "if tool_name and ..." skips it.             *)
(***************************************************************************)
C15_ToolIsNilOrRegistered ==
    (OpReturned /\ IsExtractTool)
        => op_ret.tool_name = None \/ op_ret.tool_name \in Names(op.available_tools)

\* the part that holds: the no-tool words and a missing TOOL line give nil
C15_NoToolWordsGiveNil ==
    (OpReturned /\ IsExtractTool
        /\ (op.field = NoField \/ lower(op.field) \in {"none", "n/a", "no tool", "no_tool"}))
        => op_ret.tool_name = None

\* an empty TOOL field came back as the empty string
C15_EmptyFieldReturned ==
    /\ OpReturned
    /\ IsExtractTool
    /\ op.next_step = "TOOL:"
    /\ op_ret.tool_name = ""

(***************************************************************************)
(* C16. Planner.is_query_ambiguous answers true exactly when the query has *)
(* fewer than 5 whitespace-separated words, its lower-cased text holds one *)
(* of the vague phrases, and it holds none of the domain keywords.  'huh'  *)
(* is ambiguous, 'show me top 10 opportunities by amount' is not, and a    *)
(* false verdict comes with no clarifying text and no generation call.     *)
(***************************************************************************)
HoldsVaguePhrase(text) == \E phrase \in vague_patterns : Contains(lower(text), phrase)

HoldsDomainKeyword(text) == \E kw \in crm_keywords : Contains(lower(text), kw)

AllThreeConditions(text) ==
    WordCount(text) < 5 /\ HoldsVaguePhrase(text) /\ ~HoldsDomainKeyword(text)

C16_AmbiguousExactlyWhenAllThree ==
    (IsAmbiguityCall /\ op_pc # "call")
        => /\ OpReturned => op_ret.is_vague = AllThreeConditions(op.query)
           \* the call can only fail while generating the text of a true verdict
           /\ op_pc = "raised" => AllThreeConditions(op.query)
           /\ (OpReturned /\ op.query = "huh") => op_ret.is_vague
           /\ op.query = "show me top 10 opportunities by amount"
                => (OpReturned /\ ~op_ret.is_vague)
           /\ (OpReturned /\ ~op_ret.is_vague)
                => (op_ret.clarifying_response = "" /\ invoked = <<>>)

\* 'huh' was found ambiguous and a clarifying text was generated for it
C16_Witness ==
    /\ OpReturned
    /\ IsAmbiguityCall
    /\ op.query = "huh"
    /\ op_ret.is_vague
    /\ op_ret.clarifying_response # ""
    /\ invoked = <<Call("get_llm_response", "huh")>>

\* a long question that holds a vague phrase was answered false, without a generation call
C16_WitnessNotAmbiguous ==
    /\ OpReturned
    /\ IsAmbiguityCall
    /\ op.query = "explain this to me please"
    /\ ~op_ret.is_vague
    /\ invoked = <<>>

(***************************************************************************)
(* C17. A query that is exactly one of the vague phrases of the detector   *)
(* is found ambiguous.  Four of the eight phrases hold a domain keyword    *)
(* themselves ('what' or 'get') and are never found ambiguous.             *)
(***************************************************************************)
C17_EveryVaguePhraseIsAmbiguous ==
    (OpReturned /\ IsAmbiguityCall /\ op.query \in vague_patterns) => op_ret.is_vague

\* the phrases that are found ambiguous when they are the whole query
C17_OnlyTheKeywordFreePhrases ==
    (IsAmbiguityCall /\ op.query \in vague_patterns /\ op_pc # "call")
        => ((OpReturned /\ ~op_ret.is_vague)
                <=> op.query \in {"what does this mean", "what is this", "i don't get it",
                                  "what happened"})

\* 'what is this' was answered not ambiguous, with no clarifying text
C17_WhatIsThisNotAmbiguous ==
    /\ OpReturned
    /\ IsAmbiguityCall
    /\ op.query = "what is this"
    /\ op_ret = [is_vague |-> FALSE, clarifying_response |-> ""]

(***************************************************************************)
(* C18. Executor.execute_tool returns a failure for a tool name that is    *)
(* not in the registry, without calling anything; when the execute of the  *)
(* tool it calls raises, it returns a failure whose error is the message   *)
(* of the exception and whose command is the command it was given; and it  *)
(* never raises itself, whatever the tool name and the command.            *)
(***************************************************************************)
\* execute_tool got as far as calling tool.execute
ToolCalled ==
    /\ invoked # <<>>
    /\ invoked[1].callee \in {"CRM_Database_Query.execute", "CRM_Analytics.execute",
                              "CRM_Reasoning.execute"}

C18_ExecuteToolNeverRaises ==
    (IsExecuteTool /\ op_pc # "call")
        => /\ OpReturned
           /\ op.tool_name \notin Names(op.registry)
                => /\ op_ret.result = Failure("Unknown tool: " \o op.tool_name)
                   /\ invoked = <<>>
           /\ (ToolCalled /\ op_ret.world.tool.kind = "raises")
                => /\ op_ret.result = Failure(op_ret.world.tool.message)
                   /\ op_ret.command = op.command
                   /\ Len(invoked) = 1

\* the execute of CRM_Analytics raised and the caller holds a failure with the message
C18_Witness ==
    /\ OpReturned
    /\ IsExecuteTool
    /\ op.tool_name = "CRM_Analytics"
    /\ op.command = "pipeline_value"
    /\ ToolCalled
    /\ op_ret.world.tool = Raises("connection refused")
    /\ op_ret.result = Failure("connection refused")
    /\ op_ret.command = "pipeline_value"

\* a name that is not registered was answered with a failure
C18_WitnessUnknownTool ==
    /\ OpReturned
    /\ IsExecuteTool
    /\ op.tool_name = "CRM_Email"
    /\ op_ret.result = Failure("Unknown tool: CRM_Email")

(***************************************************************************)
(* C19. Every result with success = false that a tool or                   *)
(* Executor.execute_tool returns carries an error text that is not empty,  *)
(* also when the failure comes from an exception with an empty message.    *)
(* The except branches store str(e) as it is.                              *)
(***************************************************************************)
C19_FailureHasNonEmptyError ==
    (OpReturned /\ (IsExecuteTool \/ IsQueryToolCall) /\ ~op_ret.result.success)
        => op_ret.result.error # ""

\* the failures that do not come from an exception all carry a text
C19_HoldsWithoutEmptyMessages ==
    (OpReturned /\ (IsExecuteTool \/ IsQueryToolCall) /\ ~op_ret.result.success
        /\ op_ret.result.error = "")
        => \/ (IsQueryToolCall /\ op_ret.world.store = Raises(""))
           \/ (IsExecuteTool /\ Raises("") \in {op_ret.world.tool, op_ret.world.store,
                                                op_ret.world.llm})

\* execute_query raised an exception without a message: the failure has an empty error
C19_EmptyErrorFromTheStore ==
    /\ OpReturned
    /\ IsExecuteTool
    /\ op.tool_name = "CRM_Database_Query"
    /\ op.command = "SELECT * FROM leads"
    /\ op_ret.world.tool = Runs
    /\ op_ret.world.store = Raises("")
    /\ op_ret.result = Failure("")

(***************************************************************************)
(* C20. A tool registered under a new name is selected by the Planner when *)
(* the planner answer names it, and Executor.execute_tool calls its        *)
(* execute with the command and returns its result.  The Planner part      *)
(* holds; execute_tool dispatches on the three built-in names and answers  *)
(* any other registered name with a failure.                               *)
(***************************************************************************)
C20_NewToolIsExecuted ==
    (OpReturned /\ IsExecuteTool /\ op.tool_name = NewTool /\ NewTool \in Names(op.registry))
        => /\ invoked # <<>>
           /\ invoked[1].arg = op.command

\* the Planner selects the new tool once it is registered, and only then
C20_NewToolIsSelected ==
    (OpReturned /\ IsExtractTool /\ op.field = NewTool)
        => op_ret.tool_name = (IF NewTool \in Names(op.available_tools) THEN NewTool ELSE None)

\* the registered new tool was answered with a failure and nothing was called
C20_NewToolNotDispatched ==
    /\ OpReturned
    /\ IsExecuteTool
    /\ op.tool_name = NewTool
    /\ NewTool \in Names(op.registry)
    /\ op_ret.world.tool = Runs
    /\ op_ret.result = Failure("Unknown tool execution: CRM_Export")
    /\ invoked = <<>>

(***************************************************************************)
(* C11. When two solve calls run interleaved on one solver instance, the   *)
(* Memory each of them works on and the memory each of them returns hold   *)
(* only its own ActionRecords, with steps 1..N, and the clear() of one     *)
(* discards no record of the other.  Both calls use the one self.memory of *)
(* the instance: a clear() by the second caller rebinds the list the first *)
(* one appends to and returns.                                             *)
(***************************************************************************)
\* the records thread t has appended so far
OwnRecordCount(t) ==
    IF threads[t].pc = "done" /\ threads[t].ret.exit = "clarification"
    THEN threads[t].step_count - 1
    ELSE threads[t].step_count

\* the list thread t works on, or holds through the result it got
ThreadMemory(t) ==
    IF threads[t].pc = "done" THEN heap[threads[t].ret.memory] ELSE heap[actions]

C11_ConcurrentSolvesShareNothing ==
    \A t \in DOMAIN threads :
        threads[t].pc \in {"loop", "final", "done"}
            => /\ \A i \in 1..Len(ThreadMemory(t)) :
                     /\ ThreadMemory(t)[i].timestamp = t
                     /\ ThreadMemory(t)[i].step = i
               /\ Len(ThreadMemory(t)) = OwnRecordCount(t)
               /\ threads[t].pc # "done" => mem_query = threads[t].query

\* both callers have returned; the first holds a list with a record of the second and has
\* lost its own
C11_RecordsMixed ==
    /\ \A t \in DOMAIN threads : threads[t].pc = "done"
    /\ DOMAIN threads = Threads
    /\ threads[1].step_count = 1
    /\ \E i \in 1..Len(ThreadMemory(1)) : ThreadMemory(1)[i].timestamp = 2
    /\ \A i \in 1..Len(ThreadMemory(1)) : ThreadMemory(1)[i].timestamp # 1

(***************************************************************************)
(* C21. Whatever the durations of the collaborator calls, the              *)
(* execution_time that solve reports exceeds max_time by no more than the  *)
(* duration of one collaborator call.  The budget is read once per         *)
(* iteration, and an iteration makes up to four calls after the reading.   *)
(***************************************************************************)
TimedDone == clock # NoOp /\ clock.pc = "done"

C21_OverrunAtMostOneCall ==
    TimedDone => clock.execution_time <= clock.max_time + clock.longest

\* what holds: on the final exit after at least one iteration, the last iteration began
\* within the budget and made at most four calls
C21_OverrunAtMostOneIteration ==
    (TimedDone /\ clock.exit = "final" /\ clock.step_count >= 1)
        => /\ clock.iteration_start < clock.max_time
           /\ clock.call_count <= 4
           /\ clock.execution_time - clock.iteration_start <= 4 * clock.longest

\* an iteration begun one tick before the budget ran four calls of one tick each
C21_OverrunByFourCalls ==
    /\ TimedDone
    /\ clock.exit = "final"
    /\ clock.max_time = 2
    /\ clock.longest = 1
    /\ clock.iteration_start = 1
    /\ clock.step_count = 1
    /\ clock.execution_time = 5

(***************************************************************************)
(* C22. When every collaborator call comes back, normally or with a        *)
(* failure, every solve call ends by returning a result, after at most     *)
(* max_steps iterations, whatever the planner selections, tool outcomes    *)
(* and verifier verdicts.  Every call does end within max_steps            *)
(* iterations, but a call whose clarifying text generation fails ends with *)
(* an exception instead of a result (C1).                                  *)
(***************************************************************************)
\* the k-th solve call on the instance is under way
Running(k) == calls = k /\ ~Ended /\ pc # "idle"

C22_EverySolveReturns ==
    \A k \in 1..MaxCalls : Running(k) ~> (calls = k /\ Returned)

\* what holds: every call ends, by a return or by an exception
C22_EverySolveEnds ==
    \A k \in 1..MaxCalls : Running(k) ~> (calls = k /\ Ended)

\* the loop never runs more than max_steps iterations
C22_AtMostMaxStepsIterations == step_count <= max_steps

\* a call ended with an exception after a failed selection in each of its two iterations
C22_EndedByException ==
    /\ pc = "raised"
    /\ Len(selections) = 2
    /\ TraceCount("planning") = 2

(***************************************************************************)
(* C23. Executor.extract_explanation_and_command returns as command the    *)
(* text after COMMAND: joined, with one blank between, with every line     *)
(* that follows, up to the first line that is empty, the first line that   *)
(* starts with a field label, or the end of the text.  'COMMAND: SELECT 1' *)
(* followed by the line 'more text' gives 'SELECT 1 more text'; lines      *)
(* after an empty line do not belong to the command.                       *)
(***************************************************************************)
IsExtractCommand == op.name = "Executor.extract_explanation_and_command"

CommandLines == split(op.tool_command, "\n")

\* the lines that start with COMMAND:, once stripped
CommandLineIndexes ==
    {i \in 1..Len(CommandLines) : startswith(strip(CommandLines[i]), "COMMAND:")}

\* line k ends the command begun on an earlier line
EndsCommand(k) ==
    k > Len(CommandLines) \/ strip(CommandLines[k]) = "" \/ IsLabeled(strip(CommandLines[k]))

\* the stripped lines a..b joined with one blank before each
RECURSIVE JoinedLines(_, _)
JoinedLines(a, b) ==
    IF a > b THEN "" ELSE " " \o strip(CommandLines[a]) \o JoinedLines(a + 1, b)

C23_CommandRunsToEmptyOrLabeledLine ==
    (OpReturned /\ IsExtractCommand)
        => /\ op.tool_command = "COMMAND: SELECT 1\nmore text"
                => op_ret.command = "SELECT 1 more text"
           /\ op.tool_command = "COMMAND: SELECT 1\n\nmore text"
                => op_ret.command = "SELECT 1"
           /\ CommandLineIndexes = {} => op_ret.command = ""
           /\ \A i \in CommandLineIndexes :
                 (\A j \in CommandLineIndexes : j <= i)
                    => \E k \in (i + 1)..(Len(CommandLines) + 1) :
                          /\ EndsCommand(k)
                          /\ \A n \in (i + 1)..(k - 1) : ~EndsCommand(n)
                          /\ op_ret.command
                                = strip(strip(From(strip(CommandLines[i]), 8))
                                        \o JoinedLines(i + 1, k - 1))

\* a command of three lines was joined with single blanks
C23_Witness ==
    /\ OpReturned
    /\ IsExtractCommand
    /\ op.tool_command
          = "ANALYSIS: count\nEXPLANATION: one query\nCOMMAND: SELECT COUNT(*)\n  FROM leads\n  WHERE ai_score > 5"
    /\ op_ret.command = "SELECT COUNT(*) FROM leads WHERE ai_score > 5"

\* the statement as first written: lines after an empty line still belong to the command
C23_LinesAfterEmptyLineBelong ==
    (OpReturned /\ IsExtractCommand /\ op.tool_command = "COMMAND: SELECT 1\n\nmore text")
        => op_ret.command = "SELECT 1 more text"

(***************************************************************************)
(* C24: the context CRM_Reasoning receives.                                *)
(***************************************************************************)
IsReasoningCall == IsExecuteTool /\ op.tool_name = "CRM_Reasoning" /\ ToolCalled

HoldsQueryResult ==
    \E i \in DOMAIN Mem : Mem[i].tool = "CRM_Database_Query" /\ Mem[i].result.success

ExplicitContext == ExecuteToolArguments[op].explicit

\* the context the tool was called with is the command with something put before it
ContextIsPrefixed ==
    /\ Len(invoked[1].arg) > Len(strip(op.command))
    /\ SubSeq(invoked[1].arg, Len(invoked[1].arg) - Len(strip(op.command)) + 1,
              Len(invoked[1].arg)) = strip(op.command)

\* C24: when the Executor runs CRM_Reasoning on a command with no explicit context while
\* Memory holds the result of an earlier successful CRM_Database_Query, the context given to
\* the tool is the command prefixed with that result; an explicit context is passed as is
C24_PriorResultPrefixesContext ==
    (OpReturned /\ IsReasoningCall)
        => IF ExplicitContext
           THEN invoked[1].arg = SearchLazyArg(op.command, "context").group
           ELSE HoldsQueryResult => ContextIsPrefixed

\* what the code does: an explicit context is passed as is, and otherwise the stripped
\* command, whatever Memory holds
C24_ContextIsCommandOrExplicit ==
    (OpReturned /\ IsReasoningCall)
        => IF ExplicitContext
           THEN invoked[1].arg = SearchLazyArg(op.command, "context").group
           ELSE invoked[1].arg = strip(op.command)

C24_BareCommandAfterQuery ==
    /\ OpReturned /\ IsReasoningCall /\ ~ExplicitContext /\ HoldsQueryResult
    /\ op.command = "explain the pipeline"
    /\ invoked[1].arg = "explain the pipeline"

C24_ExplicitContextPassed ==
    /\ OpReturned /\ IsReasoningCall /\ ExplicitContext /\ HoldsQueryResult
    /\ invoked[1].arg = "top deals"

(***************************************************************************)
(* C25: the number of ActionRecords in the returned memory.                *)
(***************************************************************************)
ReturnedResults == {k \in 1..Len(returned) : returned[k].ret.kind = "returned"}

RecordsAtReturn(k) == Len(returned[k].memory)

ExitOf(k) == returned[k].ret.exit

\* C25: at return the number of ActionRecords in the returned memory is fixed by the exit:
\* steps on the finalization exit, steps - 1 on the escalated tool-selection exit, and 0 on
\* the ambiguity exit, which reports steps = 1 and executes no tool
C25_RecordCountByExit ==
    \A k \in ReturnedResults :
        /\ ExitOf(k) = "final"     => RecordsAtReturn(k) = returned[k].ret.steps
        /\ ExitOf(k) = "fallback"  => RecordsAtReturn(k) = returned[k].ret.steps - 1
        /\ ExitOf(k) = "ambiguity" => RecordsAtReturn(k) = 0 /\ returned[k].ret.steps = 1
        /\ ExitOf(k) = "ambiguity" /\ k = Len(returned) /\ Returned
              => TraceCount("execution") = 0

\* an escalated exit in the third step: an execution and a failed selection are recorded,
\* the second failed selection is not
C25_Witness ==
    /\ Returned
    /\ ret.exit = "fallback" /\ ret.steps = 3 /\ Len(Mem) = 2
    /\ Mem[1].tool \in tools /\ IsSelectionFailure(Mem[2])

(***************************************************************************)
(* C26: tool-selection-failure records are never adjacent.                 *)
(***************************************************************************)
AdjacentSelectionFailures(records) ==
    \E i \in 1..(Len(records) - 1) :
        IsSelectionFailure(records[i]) /\ IsSelectionFailure(records[i + 1])

\* C26: Memory never holds two adjacent tool-selection-failure ActionRecords (empty command
\* and an 'Unknown tool' error), during a solve and in every returned memory
C26_NoAdjacentSelectionFailures ==
    /\ ~AdjacentSelectionFailures(Mem)
    /\ \A k \in 1..Len(returned) : ~AdjacentSelectionFailures(returned[k].memory)

\* two failed selections recorded in one solve, with an executed step between them
C26_Witness ==
    /\ Len(Mem) >= 3
    /\ IsSelectionFailure(Mem[1])
    /\ Mem[2].tool \in tools
    /\ IsSelectionFailure(Mem[3])

(***************************************************************************)
(* C27: what the oscillation guard finds when it ends the loop.            *)
(***************************************************************************)
EndedByOscillation == stop_reason = "oscillation" /\ pc \in {"finalize", "done"}

\* C27: whenever the oscillation guard (query, reasoning, query, reasoning) ends the loop,
\* no CRM_Database_Query action has succeeded or no CRM_Reasoning action has succeeded
C27_OscillationMeansOneKindNeverSucceeded ==
    EndedByOscillation =>
        \/ ~HasSucceeded(Mem, "CRM_Database_Query")
        \/ ~HasSucceeded(Mem, "CRM_Reasoning")

\* the guard ends a loop whose queries succeeded and whose reasoning steps all failed
C27_Witness ==
    /\ EndedByOscillation
    /\ Len(Mem) = 4
    /\ Mem[1].result.success /\ Mem[3].result.success
    /\ ~HasSucceeded(Mem, "CRM_Reasoning")

(***************************************************************************)
(* C28: where the finalization exit takes its outcome from.                *)
(***************************************************************************)
\* what the result dictionary of the last record gives, or the defaults when there is none
OutcomeOf(records) ==
    IF records = <<>>
    THEN [success |-> FALSE, results |-> 0, result_count |-> 0]
    ELSE [success      |-> Last(records).result.success,
          results      |-> Last(records).result.results,
          result_count |-> Last(records).result.result_count]

\* C28: on the finalization exit, success, results and result_count are those of the most
\* recently recorded ActionRecord's result, and false, empty and 0 when nothing was recorded
C28_OutcomeIsLastRecord ==
    \A k \in ReturnedResults :
        ExitOf(k) = "final" =>
            LET r == returned[k].ret
            IN  [success |-> r.success, results |-> r.results, result_count |-> r.result_count]
                    = OutcomeOf(returned[k].memory)

\* a finalization whose last record is a failure while an earlier step found rows
C28_Witness ==
    /\ Returned
    /\ ret.exit = "final"
    /\ Len(Mem) >= 2
    /\ Mem[1].result.success /\ Mem[1].result.result_count > 0
    /\ ~Last(Mem).result.success
    /\ ~ret.success /\ ret.result_count = 0

\* a finalization with nothing recorded
C28_NothingRecorded ==
    /\ Returned
    /\ ret.exit = "final"
    /\ Mem = <<>>
    /\ ~ret.success /\ ret.results = 0 /\ ret.result_count = 0

(***************************************************************************)
(* C29: plain queries over the advertised schema.                          *)
(***************************************************************************)
IsSchemaQuery == IsQueryToolCall /\ op_pc # "call" /\ op.query \in SchemaQueries

\* the tool's checks let the query through: execute_query was called with it
PassedChecks == StoreCalls # <<>> /\ StoreCalls[1].arg = op.query

\* C29: for every table and column of the schema CRM_Database_Query advertises, the query
\* 'SELECT <column> FROM <table>' passes the tool's checks
C29_SchemaColumnsPassChecks == IsSchemaQuery => PassedChecks

\* what the code does: every advertised column but created_at passes
C29_AllButCreatedAtPass ==
    IsSchemaQuery =>
        (PassedChecks <=> op.query \notin {"SELECT created_at FROM leads",
                                           "SELECT created_at FROM activities"})

C29_CreatedAtRejected ==
    /\ IsSchemaQuery /\ OpReturned
    /\ op.query = "SELECT created_at FROM activities"
    /\ StoreCalls = <<>>
    /\ ~op_ret.result.success
    /\ op_ret.result.error = "Dangerous keyword 'CREATE' not allowed"

(***************************************************************************)
(* C30: AgentFlowSolver.solve runs one generated command again and again.  *)
(***************************************************************************)
FlowLoopEnded == flow.pc \in {"finish", "done"}

FlowInLoop == flow.pc \in {"loop", "execute", "verify", "finish", "done"}

FlowRecords == flow.actions

\* the command is generated once, before the loop, and every record carries it
OneCommandForAllSteps ==
    /\ FlowInLoop => flow.generated = 1
    /\ flow.pc \in {"analyze", "generate_sql"} => flow.generated = 0 /\ FlowRecords = <<>>
    /\ \A i \in 1..Len(FlowRecords) :
          FlowRecords[i].command = flow.sql /\ FlowRecords[i].step = i

\* a successful execution is the last one: after a success at the first execution the loop
\* stops with exactly one step
SuccessStopsTheLoop ==
    /\ \A i \in 1..(Len(FlowRecords) - 1) : ~FlowRecords[i].result.success
    /\ (FlowLoopEnded /\ FlowRecords # <<>> /\ FlowRecords[1].result.success)
          => flow.step = 1 /\ Len(FlowRecords) = 1
    /\ (FlowLoopEnded /\ FlowRecords # <<>> /\ Last(FlowRecords).result.success)
          => flow.stopped_by = "verifier"

BudgetReached == flow.step >= flow.max_steps \/ flow.now >= flow.max_time

\* C30: in AgentFlowSolver.solve the SQL command is generated once before the loop and
\* never regenerated; a success at the first execution stops the loop after exactly one
\* step; after a failure the identical command is executed again in every iteration until an
\* execution succeeds or max_steps or max_time is reached; all ActionRecords of one solve
\* carry the same command and the steps 1..N
C30_OneCommandUntilSuccessOrBudget ==
    /\ flow # NoOp => OneCommandForAllSteps /\ SuccessStopsTheLoop
    /\ flow # NoOp /\ FlowLoopEnded
          => \/ BudgetReached
             \/ FlowRecords # <<>> /\ Last(FlowRecords).result.success

\* the command fails twice and succeeds the third time it is executed
C30_Witness ==
    /\ flow # NoOp
    /\ flow.pc = "done" /\ flow.ret.kind = "returned" /\ flow.ret.success
    /\ flow.ret.steps = 3
    /\ Len(FlowRecords) = 3
    /\ ~FlowRecords[1].result.success /\ ~FlowRecords[2].result.success
    /\ FlowRecords[3].result.success
    /\ \A i \in 1..3 : FlowRecords[i].command = flow.ret.generated_sql

\* C30 as stated: once the first execution has failed, the loop runs until max_steps or
\* max_time is reached
C30_FailureRunsToTheBudget ==
    /\ flow # NoOp => OneCommandForAllSteps /\ SuccessStopsTheLoop
    /\ (flow # NoOp /\ FlowLoopEnded /\ FlowRecords # <<>> /\ ~FlowRecords[1].result.success)
          => BudgetReached

\* the first execution fails, the second succeeds, and the loop stops short of both budgets
C30_StoppedBeforeTheBudget ==
    /\ flow # NoOp
    /\ FlowLoopEnded
    /\ Len(FlowRecords) = 2
    /\ ~FlowRecords[1].result.success /\ FlowRecords[2].result.success
    /\ flow.step < flow.max_steps /\ flow.now < flow.max_time

====
